---- MODULE Spec2Model ----
(***************************************************************************)
(* A model of the PixelPilot pipeline scripts: the multi-API code          *)
(* generator, the Notion spec extractor, the V0 file writer, the smoke     *)
(* test of the dev server and the automated error fixer.                   *)
(*                                                                         *)
(* Every component has its own variables and its own specification; the    *)
(* variables of the other components stay at their initial values.         *)
(* Python strings are modelled as sequences of tokens (Seq of strings) or, *)
(* where only identity matters, as TLA+ strings.                           *)
(***************************************************************************)
EXTENDS Integers, Sequences, FiniteSets, TLC

VARIABLES
    gen_pc,        \* generate_code_multi_api: the strategy about to be tried
    gen_env,       \* the credentials present in the environment
    gen_calls,     \* the backends invoked so far, in order
    gen_resps,     \* what the HTTP exchange of each invoked backend produced
    gen_results,   \* the (content, success) pair each invoked backend returned
    gen_ret,       \* the (content, tag) pair returned, NoReturn before
    ext_pc,        \* spec extractor: "start", then "done"
    ext_fetch,     \* what fetch_notion_page yields: success flag and payload
    ext_out,       \* what the extractor returned
    wr_text,       \* file writer: the generated text, a sequence of blocks
    wr_project,    \* the project_dir argument: "given" or "none"
    wr_fs,         \* the files on disk: location -> content
    wr_pc,         \* "start", "once" after one run on wr_text, then "twice"
    wr_saved,      \* files_saved of the last run
    wr_ret,        \* what the last run returned
    wr_log,        \* the locations the last run wrote, in order
    wr_fs1,        \* the files on disk when the first run returned
    sm_variant,    \* smoke test: which test_dev_server runs
    sm_exists,     \* whether the project directory exists
    sm_pc,         \* "start", "waiting" during the sleep, "done"
    sm_clock,      \* seconds slept so far
    sm_child,      \* the dev server: "none", "running", "exited", "terminated"
    sm_exit,       \* when the dev server exited by itself and its exit code
    sm_ret,        \* what test_dev_server returned
    pt_manifest,   \* patcher: package.json
    pt_fixes,      \* fixes_applied of the fixer
    pt_last,       \* the rule that ran last, "none" before any
    pt_prev,       \* the rule that ran before the last one
    pt_before,     \* package.json as the last rule found it
    pt_added,      \* the fix records the last rule appended
    pt_raised,     \* whether the last rule raised
    pt_steps,      \* how many rules ran
    fb_pc,         \* feedback loop: "ready" while the document is in use
    fb_doc,        \* the pixelpilot document, a sequence of lines
    fb_written,    \* the feedback sections that reached the document, oldest first
    fb_tries,      \* how many times write_feedback_to_pixelpilot was called
    fb_ret,        \* what the last write_feedback_to_pixelpilot returned
    fb_out,        \* what the last extract_feedback returned
    fx_pc,         \* detect_and_fix_all_errors: "running", "returned", "raised"
    fx_project,    \* the files of the project directory
    fx_start,      \* the files as the fixer found them
    fx_fixes,      \* fixes_applied
    fx_ran,        \* the rules called so far, in order
    fx_ret,        \* the list returned, NoFixList before and after a raise
    wf_pc,         \* run_workflow: the stage about to run, then "returned"
    wf_results,    \* the results dictionary
    wf_project,    \* the files save_project left in the project directory
    wf_ran,        \* the stages entered so far, in order
    wf_failed,     \* the stage whose call failed, "none" while none did
    a3_pc,         \* run_agent3_workflow: the step about to run, then "returned"
    a3_url,        \* the url argument
    a3_calls,      \* how each tool call so far ended: "ok", "failed", "timeout", ...
    a3_doc,        \* the specs text step 1 isolated from the Notion page
    a3_specs,      \* what extract_specs returned
    a3_analysis,   \* what browser_test_analysis returned
    a3_summary,    \* what generate_summary returned
    a3_feedback,   \* what write_feedback_to_pixelpilot returned
    a3_ret,        \* what run_agent3_workflow returned: "none", "True", "False"
    ins_variant,   \* install step: "agent2" (install_dependencies) or "final"
    ins_exists,    \* whether the project directory exists
    ins_pc,        \* "start", "waiting" for npm, "done"
    ins_clock,     \* seconds waited so far
    ins_npm,       \* npm install: "none", "running", "exited", "killed"
    ins_exit,      \* the exit code of npm and the length of its stderr
    ins_ret,       \* what the install step returned, and the stderr it carries
    ins_dev,       \* whether run_workflow went on to test_dev_server
    dp_pc,         \* deploy_to_vercel: "check", "config", "deploy", "done"
    dp_name,       \* the project_name argument
    dp_exists,     \* whether the project directory exists
    dp_cli,        \* the vercel CLI: "present", "absent", or "broken"
    dp_config,     \* whether vercel.json was written into the project
    dp_invoked,    \* whether "vercel --prod" was run
    dp_result,     \* what "vercel --prod" exited with and printed
    dp_ret,        \* the string returned, NoText before
    or_pc,         \* main of the orchestrator: "agent1", "agent2", "agent3", "done"
    or_started,    \* the agents started so far, in order
    or_a1,         \* how the child of run_agent1 ended, and what it printed
    or_a2,         \* the same for run_agent2
    or_a3,         \* the same for run_agent3
    or_project,    \* project_name, OrNone before and when none was extracted
    or_deploy,     \* deployment_result, OrNone before and on failure
    or_report,     \* the closing line main printed, "none" before
    a4_pc,         \* run_agent4_workflow: the step about to run, then "returned"
    a4_name,       \* the project_name argument
    a4_exists,     \* whether the project directory exists
    a4_results,    \* what the tools called so far returned, in order
    a4_tmp,        \* whether '<project>_iteration_specs.txt' exists
    a4_reported,   \* the N of "Agent 4 failed at Step N", 0 while none was printed
    a4_ret,        \* what run_agent4_workflow returned: "none", "True", "False"
    lp_pc,         \* line-based parser: "start", then "done"
    lp_text,       \* the lines of the generated text
    lp_writes,     \* the calls of save_file so far: path and content, in order
    lp_count,      \* files_saved as returned
    nc_session,    \* NotionMCPClient.session: "None", "created" (not initialised), "initialized"
    nc_stdio,      \* NotionMCPClient.stdio_context: "None", "set"
    nc_log,        \* the calls made on the client so far and how each ended
    nc_uninit,     \* whether a request was sent on a session that was not initialised
    pp_parent,     \* where run_agentN is: "readline", "wait", "returned"
    pp_todo,       \* the writes the child has still to do, in order ("out" or "err")
    pp_child,      \* "running" or "exited"
    pp_code,       \* the child's exit code
    pp_stdout,     \* lines held by the child's stdout pipe
    pp_stderr,     \* chunks held by the child's stderr pipe
    pp_lines,      \* number of lines in output_lines
    pp_err         \* chunks of stderr read by the parent

genVars == <<gen_pc, gen_env, gen_calls, gen_resps, gen_results, gen_ret>>
extVars == <<ext_pc, ext_fetch, ext_out>>

wrVars == <<wr_text, wr_project, wr_fs, wr_pc, wr_saved, wr_ret, wr_log,
            wr_fs1>>

smVars == <<sm_variant, sm_exists, sm_pc, sm_clock, sm_child, sm_exit, sm_ret>>
ptVars == <<pt_manifest, pt_fixes, pt_last, pt_prev, pt_before, pt_added,
            pt_raised, pt_steps>>

fbVars == <<fb_pc, fb_doc, fb_written, fb_tries, fb_ret, fb_out>>

fxVars == <<fx_pc, fx_project, fx_start, fx_fixes, fx_ran, fx_ret>>

wfVars == <<wf_pc, wf_results, wf_project, wf_ran, wf_failed>>

a3Vars == <<a3_pc, a3_url, a3_calls, a3_doc, a3_specs, a3_analysis, a3_summary,
            a3_feedback, a3_ret>>

insVars == <<ins_variant, ins_exists, ins_pc, ins_clock, ins_npm, ins_exit,
             ins_ret, ins_dev>>

dpVars == <<dp_pc, dp_name, dp_exists, dp_cli, dp_config, dp_invoked, dp_result,
           dp_ret>>

orVars == <<or_pc, or_started, or_a1, or_a2, or_a3, or_project, or_deploy,
    or_report>>

a4Vars == <<a4_pc, a4_name, a4_exists, a4_results, a4_tmp, a4_reported,
    a4_ret>>

lpVars == <<lp_pc, lp_text, lp_writes, lp_count>>

ncVars == <<nc_session, nc_stdio, nc_log, nc_uninit>>

ppVars == <<pp_parent, pp_todo, pp_child, pp_code, pp_stdout, pp_stderr,
    pp_lines, pp_err>>

vars == <<genVars, extVars, wrVars, smVars, ptVars, fbVars, fxVars, wfVars,
    a3Vars, insVars, dpVars, orVars, a4Vars, lpVars, ncVars, ppVars>>

\* What each component leaves alone.
genOthers == <<extVars, wrVars, smVars, ptVars, fbVars, fxVars, wfVars,
    a3Vars, insVars, dpVars, orVars, a4Vars, lpVars, ncVars, ppVars>>
extOthers == <<genVars, wrVars, smVars, ptVars, fbVars, fxVars, wfVars,
    a3Vars, insVars, dpVars, orVars, a4Vars, lpVars, ncVars, ppVars>>
wrOthers == <<genVars, extVars, smVars, ptVars, fbVars, fxVars, wfVars,
    a3Vars, insVars, dpVars, orVars, a4Vars, lpVars, ncVars, ppVars>>
smOthers == <<genVars, extVars, wrVars, ptVars, fbVars, fxVars, wfVars,
    a3Vars, insVars, dpVars, orVars, a4Vars, lpVars, ncVars, ppVars>>
ptOthers == <<genVars, extVars, wrVars, smVars, fbVars, fxVars, wfVars,
    a3Vars, insVars, dpVars, orVars, a4Vars, lpVars, ncVars, ppVars>>
fbOthers == <<genVars, extVars, wrVars, smVars, ptVars, fxVars, wfVars,
    a3Vars, insVars, dpVars, orVars, a4Vars, lpVars, ncVars, ppVars>>
fxOthers == <<genVars, extVars, wrVars, smVars, ptVars, fbVars, wfVars,
    a3Vars, insVars, dpVars, orVars, a4Vars, lpVars, ncVars, ppVars>>
wfOthers == <<genVars, extVars, wrVars, smVars, ptVars, fbVars, fxVars,
    a3Vars, insVars, dpVars, orVars, a4Vars, lpVars, ncVars, ppVars>>
a3Others == <<genVars, extVars, wrVars, smVars, ptVars, fbVars, fxVars,
    wfVars, insVars, dpVars, orVars, a4Vars, lpVars, ncVars, ppVars>>
insOthers == <<genVars, extVars, wrVars, smVars, ptVars, fbVars, fxVars,
    wfVars, a3Vars, dpVars, orVars, a4Vars, lpVars, ncVars, ppVars>>
dpOthers == <<genVars, extVars, wrVars, smVars, ptVars, fbVars, fxVars,
    wfVars, a3Vars, insVars, orVars, a4Vars, lpVars, ncVars, ppVars>>
orOthers == <<genVars, extVars, wrVars, smVars, ptVars, fbVars, fxVars,
    wfVars, a3Vars, insVars, dpVars, a4Vars, lpVars, ncVars, ppVars>>
a4Others == <<genVars, extVars, wrVars, smVars, ptVars, fbVars, fxVars,
    wfVars, a3Vars, insVars, dpVars, orVars, lpVars, ncVars, ppVars>>
lpOthers == <<genVars, extVars, wrVars, smVars, ptVars, fbVars, fxVars,
    wfVars, a3Vars, insVars, dpVars, orVars, a4Vars, ncVars, ppVars>>
ncOthers == <<genVars, extVars, wrVars, smVars, ptVars, fbVars, fxVars,
    wfVars, a3Vars, insVars, dpVars, orVars, a4Vars, lpVars, ppVars>>
ppOthers == <<genVars, extVars, wrVars, smVars, ptVars, fbVars, fxVars,
    wfVars, a3Vars, insVars, dpVars, orVars, a4Vars, lpVars, ncVars>>

(***************************************************************************)
(* Shared helpers on token sequences.                                      *)
(***************************************************************************)

\* The whitespace tokens str.strip() removes.
Whitespace == {" ", "\n", "\t"}

RECURSIVE LStrip(_)
LStrip(s) ==
    IF s # <<>> /\ Head(s) \in Whitespace THEN LStrip(Tail(s)) ELSE s

RECURSIVE RStrip(_)
RStrip(s) ==
    IF s # <<>> /\ s[Len(s)] \in Whitespace
    THEN RStrip(SubSeq(s, 1, Len(s) - 1))
    ELSE s

\* str.strip()
Strip(s) == RStrip(LStrip(s))

(***************************************************************************)
(* Multi-API code generator (multi_api_code_generator.py).                 *)
(***************************************************************************)

HTTP_OK == 200
HTTP_ERROR == 500

\* The text an LLM backend can answer with; the empty string is a possible
\* value of choices[0].message.content.
Contents == {<<>>, <<"code A">>, <<"code B">>}

\* What one HTTP exchange with a backend can produce: a raised exception
\* (network error, timeout, malformed body), or a response with a status and
\* a possibly empty list of choices.
Responses ==
    [kind : {"exception"}, status : {HTTP_ERROR}, choices : {<<>>}]
    \cup [kind : {"http"}, status : {HTTP_OK, HTTP_ERROR},
          choices : {<<>>} \cup {<<c>> : c \in Contents}]

Keys == {"V0_API_KEY", "ANTHROPIC_API_KEY", "OPENAI_API_KEY"}

\* f"{name} API error: {response.status}"
ApiError(name, status) ==
    IF status = HTTP_OK THEN <<name, "API error", "200">>
    ELSE <<name, "API error", "500">>

\* The wrapper without the test for a non-empty list of choices.
BackendNoListCheck(name, key, env, resp) ==
    IF key \notin env THEN <<<<key, "not found">>, FALSE>>
    ELSE IF resp.kind = "exception" THEN <<<<name, "API exception">>, FALSE>>
    ELSE IF resp.status = HTTP_OK
         THEN <<IF Len(resp.choices) > 0 THEN resp.choices[1] ELSE <<>>, TRUE>>
    ELSE <<ApiError(name, resp.status), FALSE>>

\* The common body of the three backend wrappers: credential check, POST,
\* status 200 with a non-empty list, else the error string; any exception is
\* turned into an error string.
Backend(name, key, env, resp) ==
    IF key \notin env THEN <<<<key, "not found">>, FALSE>>
    ELSE IF resp.kind = "exception" THEN <<<<name, "API exception">>, FALSE>>
    ELSE IF resp.status = HTTP_OK /\ Len(resp.choices) > 0
         THEN <<resp.choices[1], TRUE>>
    ELSE <<ApiError(name, resp.status), FALSE>>

generate_with_v0(env, resp) == Backend("V0", "V0_API_KEY", env, resp)

generate_with_claude(env, resp) ==
    Backend("Claude", "ANTHROPIC_API_KEY", env, resp)

generate_with_openai(env, resp) ==
    Backend("OpenAI", "OPENAI_API_KEY", env, resp)

\* The hardcoded project of generate_fallback_project: five fenced blocks.
FallbackProject ==
    <<"package.json", "next.config.js", "app/layout.tsx", "app/page.tsx",
      "tsconfig.json">>

generate_fallback_project_failing == <<<<"Fallback generation failed">>, FALSE>>

generate_fallback_project == <<FallbackProject, TRUE>>

NoReturn == [content |-> <<>>, tag |-> "none"]

\* "if success: return content, tag", else fall through to the next strategy.
DispatchAlways(res, tag) == [content |-> res[1], tag |-> tag]

Dispatch(res, tag) ==
    IF res[2] THEN [content |-> res[1], tag |-> tag] ELSE NoReturn

\* A strategy that goes on with the next one after a success too.
TryBackendGoesOn(pc, tag, resp, res, next) ==
    /\ gen_pc = pc
    /\ gen_calls' = Append(gen_calls, tag)
    /\ gen_resps' = Append(gen_resps, resp)
    /\ gen_results' = Append(gen_results, res)
    /\ gen_ret' = Dispatch(res, tag)
    /\ gen_pc' = next
    /\ UNCHANGED <<gen_env, genOthers>>

\* One strategy of generate_code_multi_api: call the backend, return on
\* success, else go on with the next strategy.
TryBackend(pc, tag, resp, res, next) ==
    /\ gen_pc = pc
    /\ gen_calls' = Append(gen_calls, tag)
    /\ gen_resps' = Append(gen_resps, resp)
    /\ gen_results' = Append(gen_results, res)
    /\ gen_ret' = Dispatch(res, tag)
    /\ gen_pc' = IF gen_ret'.tag # "none" THEN "done" ELSE next
    /\ UNCHANGED <<gen_env, genOthers>>

TryV0 ==
    \E resp \in Responses :
        TryBackend("v0", "v0", resp, generate_with_v0(gen_env, resp),
                   "claude")

TryClaude ==
    \E resp \in Responses :
        TryBackend("claude", "claude", resp,
                   generate_with_claude(gen_env, resp), "openai")

TryOpenAI ==
    \E resp \in Responses :
        TryBackend("openai", "openai", resp,
                   generate_with_openai(gen_env, resp), "fallback")

\* The local template makes no HTTP exchange.
NoExchange == [kind |-> "none", status |-> 0, choices |-> <<>>]

\* Strategy 4: the local template, else ("", "failed").
UseFallback ==
    /\ gen_pc = "fallback"
    /\ gen_calls' = Append(gen_calls, "fallback")
    /\ gen_resps' = Append(gen_resps, NoExchange)
    /\ gen_results' = Append(gen_results, generate_fallback_project)
    /\ gen_ret' = IF generate_fallback_project[2]
                  THEN [content |-> generate_fallback_project[1],
                        tag |-> "fallback"]
                  ELSE [content |-> <<>>, tag |-> "failed"]
    /\ gen_pc' = "done"
    /\ UNCHANGED <<gen_env, genOthers>>

GenIdle ==
    /\ gen_pc = "off"
    /\ gen_env = {}
    /\ gen_calls = <<>>
    /\ gen_resps = <<>>
    /\ gen_results = <<>>
    /\ gen_ret = NoReturn

GenInit ==
    /\ gen_pc = "v0"
    /\ gen_env \in SUBSET Keys
    /\ gen_calls = <<>>
    /\ gen_resps = <<>>
    /\ gen_results = <<>>
    /\ gen_ret = NoReturn

GenNext == TryV0 \/ TryClaude \/ TryOpenAI \/ UseFallback

(***************************************************************************)
(* Spec extractor (agent1_specs_generation.py, step1_test_notion_          *)
(* extraction.py).  The fetched payload is a sequence of tokens: the two   *)
(* delimiters, text, whitespace, and the opening and closing text of a     *)
(* JSON envelope {"text":"..."}.                                           *)
(***************************************************************************)

MaxRawLen == 5

OpenTag == "<content>"
CloseTag == "</content>"
JsonOpen == "{\"text\":\""
JsonClose == "\"}"
JsonNoText == "{\"other\":1}"
JsonList == "[1]"

\* A run of 100 characters of specification text.
Text100 == "text*100"

RawAlphabet == {OpenTag, CloseTag, Text100, " ", JsonOpen, JsonClose}

\* The number of characters of a token, and len() of a token sequence.
TokLen(t) ==
    CASE t = OpenTag -> 9
      [] t = CloseTag -> 10
      [] t = Text100 -> 100
      [] t = JsonOpen -> 9
      [] t = JsonClose -> 2
      [] t = JsonNoText -> 11
      [] t = JsonList -> 3
      [] OTHER -> 1

RECURSIVE StrLen(_)
StrLen(s) == IF s = <<>> THEN 0 ELSE TokLen(Head(s)) + StrLen(Tail(s))

\* "len(specs_content) > 100": the least length of a usable spec is 101.
MinSpecsLen == 100

RawPayloads ==
    UNION {[1..n -> RawAlphabet] : n \in 0..MaxRawLen}
    \cup {<<JsonNoText>>, <<JsonList>>}

\* s.find(t): the first index of token t in s, 0 when absent.
Find(s, t) ==
    IF \E i \in 1..Len(s) : s[i] = t
    THEN CHOOSE i \in 1..Len(s) : s[i] = t /\ \A j \in 1..(i - 1) : s[j] # t
    ELSE 0

\* json.loads(raw_text): leading and trailing whitespace is ignored; the
\* document is an object with a "text" string, an object without one, a value
\* that is no object, or it does not parse (JSONDecodeError).
JsonLoads(raw) ==
    LET s == Strip(raw) IN
    IF s = <<JsonList>> THEN [kind |-> "value"]
    ELSE IF s = <<JsonNoText>> THEN [kind |-> "object"]
    ELSE IF /\ Len(s) >= 2
            /\ s[1] = JsonOpen
            /\ s[Len(s)] = JsonClose
            /\ \A i \in 2..(Len(s) - 1) : s[i] \notin {JsonOpen, JsonClose}
         THEN [kind |-> "object", text |-> SubSeq(s, 2, Len(s) - 1)]
    ELSE [kind |-> "decode_error"]

\* specs_text[start:end].strip() with start = find("<content>") +
\* len("<content>") and end = find("</content>").
SliceContent(text) ==
    Strip(SubSeq(text, Find(text, OpenTag) + 1, Find(text, CloseTag) - 1))

\* "Parse the JSON-like response to extract clean specs": the delimiters are
\* looked for only when the payload parsed as JSON; a payload that does not
\* parse is used whole; parsed.get on a value that is no object raises.
CleanSpecs(raw) ==
    LET parsed == JsonLoads(raw) IN
    IF parsed.kind = "decode_error" THEN [kind |-> "text", text |-> raw]
    ELSE IF parsed.kind = "value" THEN [kind |-> "raised", text |-> <<>>]
    ELSE LET text == IF "text" \in DOMAIN parsed THEN parsed.text ELSE raw IN
         IF Find(text, OpenTag) > 0 /\ Find(text, CloseTag) > 0
         THEN [kind |-> "text", text |-> SliceContent(text)]
         ELSE [kind |-> "text", text |-> text]

\* test_notion_extraction: the clean specs, or None when the fetch failed or
\* anything raised.
TestNotionExtraction ==
    /\ ext_pc = "start"
    /\ ext_pc' = "done"
    /\ ext_out' = IF ~ext_fetch.success THEN [kind |-> "none", text |-> <<>>]
                  ELSE LET r == CleanSpecs(ext_fetch.raw) IN
                       IF r.kind = "raised"
                       THEN [kind |-> "none", text |-> <<>>]
                       ELSE r
    /\ UNCHANGED <<ext_fetch, extOthers>>

\* extract_notion_specs with "len(specs_content) >= 100".
ExtractNotionSpecsInclusive ==
    /\ ext_pc = "start"
    /\ ext_pc' = "done"
    /\ ext_out' = IF ~ext_fetch.success THEN [kind |-> "FAILED", text |-> <<>>]
                  ELSE LET r == CleanSpecs(ext_fetch.raw) IN
                       IF r.kind = "raised"
                       THEN [kind |-> "ERROR", text |-> <<>>]
                       ELSE IF StrLen(r.text) >= MinSpecsLen
                       THEN [kind |-> "SUCCESS", text |-> r.text]
                       ELSE [kind |-> "FAILED", text |-> <<>>]
    /\ UNCHANGED <<ext_fetch, extOthers>>

\* extract_notion_specs: the clean specs behind a SUCCESS tag when they are
\* longer than 100 characters, a FAILED tag when the fetch failed or the text
\* is short, an ERROR tag when anything raised.
ExtractNotionSpecs ==
    /\ ext_pc = "start"
    /\ ext_pc' = "done"
    /\ ext_out' = IF ~ext_fetch.success THEN [kind |-> "FAILED", text |-> <<>>]
                  ELSE LET r == CleanSpecs(ext_fetch.raw) IN
                       IF r.kind = "raised"
                       THEN [kind |-> "ERROR", text |-> <<>>]
                       ELSE IF StrLen(r.text) > MinSpecsLen
                       THEN [kind |-> "SUCCESS", text |-> r.text]
                       ELSE [kind |-> "FAILED", text |-> <<>>]
    /\ UNCHANGED <<ext_fetch, extOthers>>

ExtIdle ==
    /\ ext_pc = "off"
    /\ ext_fetch = [success |-> FALSE, raw |-> <<>>]
    /\ ext_out = [kind |-> "none", text |-> <<>>]

ExtInit ==
    /\ ext_pc = "start"
    /\ ext_fetch \in [success : {TRUE}, raw : RawPayloads]
                    \cup {[success |-> FALSE, raw |-> <<>>]}
    /\ ext_out = [kind |-> "none", text |-> <<>>]

ExtNext == TestNotionExtraction \/ ExtractNotionSpecs

(***************************************************************************)
(* File writer (step2_test_v0_generation.py).  The generated text is a     *)
(* sequence of well-formed blocks, each closed by its own fence or tag, so *)
(* that every regular expression matches block by block.  A path is a      *)
(* sequence of segments; "/" as first segment makes it absolute.           *)
(***************************************************************************)

MaxBlocks == 2

\* The directory the project directory is joined to, and the project
\* directory itself, as absolute locations.
WorkDir == <<"work">>
ProjectDir == WorkDir \o <<"proj">>

PackageJson == <<"package.json">>
PageTsx == <<"app", "page.tsx">>
Passwd == <<"/", "etc", "passwd">>
UpEvil == <<"..", "evil.json">>

Paths == {PackageJson, PageTsx, Passwd, UpEvil}

\* Pattern 3 accepts a heading only when the name ends in .json, .js, .tsx,
\* .ts, .css or .md.
HasKnownExtension(path) == path \in {PackageJson, PageTsx, UpEvil}

Bodies == {<<"a">>, <<"\n", "b", "\n">>}

\* The kinds of block:
\*   fence_file     ```lang file="path"\n body ```
\*   fence_nospace  ```langfile="path"\n body ```
\*   file_tag       <File path="path">\n body </File>
\*   heading        ## path\n```lang\n body ```
\*   heading_file   ## path\n```lang file="path"\n body ```
\*   prose          text that no pattern matches
FileKinds ==
    {"fence_file", "fence_nospace", "file_tag", "heading", "heading_file"}

Blocks ==
    [kind : FileKinds, path : Paths, body : Bodies]
    \cup {[kind |-> "prose", path |-> <<>>, body |-> <<>>]}

Texts == UNION {[1..n -> Blocks] : n \in 0..MaxBlocks}

\* The (filename, content) groups re.findall returns for the blocks a
\* pattern matches, in the order of the text.
Groups(matched) ==
    [i \in 1..Len(matched) |-> <<matched[i].path, matched[i].body>>]

\* pattern1 = ```(\w+)\s+file="([^"]+)"\s*\n(.*?)```
IsPattern1(b) == b.kind \in {"fence_file", "heading_file"}

\* pattern2 = <[Ff]ile path="([^"]+)">\s*\n(.*?)</[Ff]ile>
IsPattern2(b) == b.kind = "file_tag"

\* pattern3 = ## ([^\n]+\.(json|js|tsx|ts|css|md))\s*\n```[^\n]*\n(.*?)```
IsPattern3(b) ==
    b.kind \in {"heading", "heading_file"} /\ HasKnownExtension(b.path)

\* pattern4 = ```\w+\s*file="([^"]+)"\s*\n(.*?)```
IsPattern4(b) == b.kind \in {"fence_file", "fence_nospace", "heading_file"}

\* re.findall(pattern, generated_code, re.DOTALL) for each pattern.
FindAll1(text) == Groups(SelectSeq(text, IsPattern1))
FindAll2(text) == Groups(SelectSeq(text, IsPattern2))
FindAll3(text) == Groups(SelectSeq(text, IsPattern3))
FindAll4(text) == Groups(SelectSeq(text, IsPattern4))

\* os.path.join(project_dir, filepath): an absolute filepath replaces the
\* project directory.
Join(path) == IF Head(path) = "/" THEN Tail(path) ELSE ProjectDir \o path

\* The location the operating system resolves a path to: ".." leaves the
\* directory reached so far.
RECURSIVE Normalize(_, _)
Normalize(done, rest) ==
    IF rest = <<>> THEN done
    ELSE IF Head(rest) = ".."
         THEN Normalize(SubSeq(done, 1, Len(done) - 1), Tail(rest))
    ELSE Normalize(Append(done, Head(rest)), Tail(rest))

Location(path) == Normalize(<<>>, Join(path))

IsUnder(loc, dir) == Len(loc) > Len(dir) /\ SubSeq(loc, 1, Len(dir)) = dir

\* open(full_path, 'w').write(content.strip())
WriteFile(fs, loc, content) ==
    [l \in DOMAIN fs \cup {loc} |-> IF l = loc THEN Strip(content) ELSE fs[l]]

\* open(full_path, 'a') in place of 'w'.
AppendFile(fs, loc, content) ==
    [l \in DOMAIN fs \cup {loc} |->
        IF l # loc THEN fs[l]
        ELSE IF loc \in DOMAIN fs THEN fs[loc] \o Strip(content)
        ELSE Strip(content)]

\* save_file(project_dir, filepath, content) on the state of a run: the
\* files, the counter files_saved and the log of written locations.
save_file_append(st, filepath, content) ==
    [fs |-> AppendFile(st.fs, Location(filepath), content),
     saved |-> st.saved + 1,
     log |-> Append(st.log, Location(filepath))]

save_file(st, filepath, content) ==
    [fs |-> WriteFile(st.fs, Location(filepath), content),
     saved |-> st.saved + 1,
     log |-> Append(st.log, Location(filepath))]

\* One "for filename, content in matches" loop; skip holds the filenames the
\* loop leaves out.
RECURSIVE SaveMatches(_, _, _)
SaveMatches(st, matches, skip) ==
    IF matches = <<>> THEN st
    ELSE LET m == Head(matches) IN
         SaveMatches(IF m[1] \in skip THEN st
                     ELSE save_file(st, m[1], Strip(m[2])),
                     Tail(matches), skip)

\* os.makedirs(project_dir, exist_ok=True) with no rmtree before it.
CleanDirectoryKeeps(fs) == fs

\* shutil.rmtree(project_dir); os.makedirs(project_dir)
CleanDirectory(fs) ==
    [l \in {x \in DOMAIN fs : ~IsUnder(x, ProjectDir)} |-> fs[l]]

\* The four loops of save_generated_project, in the order of the code.
ParseAndSave(text, fs) ==
    LET matches1 == FindAll1(text)
        names1 == {matches1[i][1] : i \in 1..Len(matches1)}
        s0 == [fs |-> CleanDirectory(fs), saved |-> 0, log |-> <<>>]
        s1 == SaveMatches(s0, matches1, {})
        s2 == SaveMatches(s1, FindAll2(text), {})
        s3 == SaveMatches(s2, FindAll3(text), {})
    IN  SaveMatches(s3, FindAll4(text), names1)

\* save_generated_project(generated_code, project_dir).  Without a
\* project_dir the function reads os.environ before its own "import os" has
\* bound the local name os, and raises before anything is touched.
SaveGeneratedProject ==
    /\ wr_pc \in {"start", "once"}
    /\ wr_pc' = IF wr_pc = "start" THEN "once" ELSE "twice"
    /\ IF wr_project = "none"
       THEN /\ wr_ret' = "raised"
            /\ wr_saved' = 0
            /\ wr_log' = <<>>
            /\ wr_fs' = wr_fs
       ELSE LET st == ParseAndSave(wr_text, wr_fs) IN
            /\ wr_ret' = IF st.saved > 0 THEN "True" ELSE "False"
            /\ wr_saved' = st.saved
            /\ wr_log' = st.log
            /\ wr_fs' = st.fs
    /\ wr_fs1' = IF wr_pc = "start" THEN wr_fs' ELSE wr_fs1
    /\ UNCHANGED <<wr_text, wr_project, wrOthers>>

NoFiles == [l \in {} |-> <<>>]

\* What an earlier run left in the project directory: a file, and a file in
\* a subdirectory.
StaleFiles ==
    [l \in {ProjectDir \o <<"old.txt">>, ProjectDir \o <<"old", "index.ts">>}
        |-> <<"stale">>]

WrIdle ==
    /\ wr_text = <<>>
    /\ wr_project = "off"
    /\ wr_fs = NoFiles
    /\ wr_pc = "off"
    /\ wr_saved = 0
    /\ wr_ret = "none"
    /\ wr_log = <<>>
    /\ wr_fs1 = NoFiles

WrInit ==
    /\ wr_text \in Texts
    /\ wr_project \in {"given", "none"}
    /\ wr_fs \in {NoFiles, StaleFiles}
    /\ wr_pc = "start"
    /\ wr_saved = 0
    /\ wr_ret = "none"
    /\ wr_log = <<>>
    /\ wr_fs1 = NoFiles

WrNext == SaveGeneratedProject

(***************************************************************************)
(* Smoke test of the dev server: test_dev_server of the deployment agent   *)
(* ("agent2"), of the subprocess tools ("tools") and of the final workflow *)
(* ("final").                                                              *)
(***************************************************************************)

\* time.sleep(5), time.sleep(3), asyncio.sleep(3)
GraceAgent2 == 5
GraceTools == 3
GraceFinal == 3

Variants == {"agent2", "tools", "final"}

Grace(variant) ==
    CASE variant = "agent2" -> GraceAgent2
      [] variant = "tools" -> GraceTools
      [] variant = "final" -> GraceFinal

NoExit == [at |-> -1, code |-> 0]

\* Up to the sleep: the directory check (not made by the final workflow,
\* where a missing cwd makes the spawn raise), then the spawn of "npm run
\* dev", which raises when it cannot be started.
StartDevServer ==
    /\ sm_pc = "start"
    /\ \E spawned \in BOOLEAN :
          IF sm_variant # "final" /\ ~sm_exists
          THEN /\ sm_ret' = "FAILED"
               /\ sm_pc' = "done"
               /\ sm_child' = "none"
          ELSE IF ~spawned \/ ~sm_exists
          THEN /\ sm_ret' = IF sm_variant = "final" THEN "False" ELSE "ERROR"
               /\ sm_pc' = "done"
               /\ sm_child' = "none"
          ELSE /\ sm_ret' = "none"
               /\ sm_pc' = "waiting"
               /\ sm_child' = "running"
    /\ UNCHANGED <<sm_variant, sm_exists, sm_clock, sm_exit, smOthers>>

\* The dev server exits by itself while the caller sleeps.
DevServerExits ==
    /\ sm_pc = "waiting"
    /\ sm_child = "running"
    /\ sm_child' = "exited"
    /\ \E code \in {0, 1} : sm_exit' = [at |-> sm_clock, code |-> code]
    /\ UNCHANGED <<sm_variant, sm_exists, sm_pc, sm_clock, sm_ret, smOthers>>

\* One second of the sleep passes.
Tick ==
    /\ sm_pc = "waiting"
    /\ sm_clock < Grace(sm_variant)
    /\ sm_clock' = sm_clock + 1
    /\ UNCHANGED <<sm_variant, sm_exists, sm_pc, sm_child, sm_exit, sm_ret,
                   smOthers>>

\* process.terminate(); process.wait(): a process that already exited stays
\* exited.
Terminate(child) == IF child = "running" THEN "terminated" ELSE child

\* What the final workflow returns after the sleep: True only when
\* process.returncode is None.
FinalVerdict(child) == IF child = "running" THEN "True" ELSE "False"

\* What the deployment agent and the subprocess tools return after the
\* sleep: SUCCESS, whatever became of the process.
Agent2Verdict(child) == "SUCCESS"

\* After the sleep.
EndGrace ==
    /\ sm_pc = "waiting"
    /\ sm_clock = Grace(sm_variant)
    /\ sm_pc' = "done"
    /\ sm_child' = Terminate(sm_child)
    /\ sm_ret' = IF sm_variant = "final" THEN FinalVerdict(sm_child)
                 ELSE Agent2Verdict(sm_child)
    /\ UNCHANGED <<sm_variant, sm_exists, sm_clock, sm_exit, smOthers>>

SmIdle ==
    /\ sm_variant = "off"
    /\ sm_exists = FALSE
    /\ sm_pc = "off"
    /\ sm_clock = 0
    /\ sm_child = "none"
    /\ sm_exit = NoExit
    /\ sm_ret = "none"

SmInit ==
    /\ sm_variant \in Variants
    /\ sm_exists \in BOOLEAN
    /\ sm_pc = "start"
    /\ sm_clock = 0
    /\ sm_child = "none"
    /\ sm_exit = NoExit
    /\ sm_ret = "none"

SmNext == StartDevServer \/ DevServerExits \/ Tick \/ EndGrace

(***************************************************************************)
(* Automated error fixer (automated_error_fixer.py): the two rules that    *)
(* rewrite package.json.  The dev script is a sequence of tokens.          *)
(***************************************************************************)

MaxScriptLen == 3
MaxPatchSteps == 2

Flag == "--turbopack"

ScriptAlphabet == {"next dev", " ", "\t", Flag}

Scripts == UNION {[1..n -> ScriptAlphabet] : n \in 0..MaxScriptLen}

\* required_deps and required_dev_deps, with their pinned versions.
RequiredDeps ==
    [d \in {"next", "react", "react-dom"} |->
        CASE d = "next" -> "^14.0.0"
          [] d = "react" -> "^18.0.0"
          [] d = "react-dom" -> "^18.0.0"]

RequiredDevDeps ==
    [d \in {"tailwindcss", "postcss", "autoprefixer", "@types/node",
            "@types/react", "@types/react-dom", "typescript"} |->
        CASE d = "tailwindcss" -> "^3.4.0"
          [] d = "postcss" -> "^8.4.31"
          [] d = "autoprefixer" -> "^10.4.16"
          [] d = "@types/node" -> "^20.11.0"
          [] d = "@types/react" -> "^18.2.47"
          [] d = "@types/react-dom" -> "^18.2.18"
          [] d = "typescript" -> "^5.3.3"]

\* The dependency tables a generated package.json can come with: a missing
\* key, or any choice of a required and an unrelated package, each at a
\* version of its own.
DepTables(names) ==
    {[kind |-> "absent"]}
    \cup {[kind |-> "table", map |-> [d \in S |-> "custom"]] : S \in SUBSET names}

\* package.json: missing, not parseable, or an object with an optional dev
\* script and the two optional tables.  indent2 tells whether the file has
\* the layout json.dump(indent=2) writes.
Manifests ==
    {[kind |-> "absent"], [kind |-> "malformed"]}
    \cup [kind : {"object"},
          indent2 : BOOLEAN,
          dev : {[kind |-> "absent"]} \cup [kind : {"script"}, text : Scripts],
          dependencies : DepTables({"next", "lodash"}),
          devDependencies : DepTables({"typescript", "eslint"})]

\* dev_script.replace(' --turbopack', ''): one pass from the left.
RECURSIVE RemoveSpaceFlag(_)
RemoveSpaceFlag(s) ==
    IF s = <<>> THEN <<>>
    ELSE IF Len(s) >= 2 /\ s[1] = " " /\ s[2] = Flag
         THEN RemoveSpaceFlag(SubSeq(s, 3, Len(s)))
    ELSE <<Head(s)>> \o RemoveSpaceFlag(Tail(s))

\* '--turbopack' in dev_script
HasFlag(s) == \E i \in 1..Len(s) : s[i] = Flag

NoChange(m) == [manifest |-> m, added |-> <<>>, raised |-> FALSE]

\* fix_turbopack_errors: what becomes of package.json, the records appended
\* to fixes_applied, and whether json.load raised.
fix_turbopack_errors(m) ==
    IF m.kind = "absent" THEN NoChange(m)
    ELSE IF m.kind = "malformed"
         THEN [manifest |-> m, added |-> <<>>, raised |-> TRUE]
    ELSE IF m.dev.kind = "script" /\ HasFlag(m.dev.text)
         THEN [manifest |->
                   [m EXCEPT !.dev.text = RemoveSpaceFlag(m.dev.text),
                             !.indent2 = TRUE],
               added |-> <<"Removed incompatible --turbopack flag">>,
               raised |-> FALSE]
    ELSE NoChange(m)

\* "for dep, version in required.items(): if dep not in table: add it"
AddMissing(table, required) ==
    LET have == IF table.kind = "absent" THEN <<>> ELSE table.map IN
    [kind |-> "table",
     map |-> [d \in DOMAIN have \cup DOMAIN required |->
                 IF d \in DOMAIN have THEN have[d] ELSE required[d]]]

Lacks(table, required) ==
    table.kind = "absent" \/ \E d \in DOMAIN required : d \notin DOMAIN table.map

\* The rule with "changed" starting out True.
fix_package_json_issues_always_changed(m) ==
    IF m.kind = "absent" THEN NoChange(m)
    ELSE IF m.kind = "malformed"
         THEN [manifest |-> m, added |-> <<>>, raised |-> TRUE]
    ELSE [manifest |->
              [m EXCEPT
                  !.dependencies = AddMissing(m.dependencies, RequiredDeps),
                  !.devDependencies =
                      AddMissing(m.devDependencies, RequiredDevDeps),
                  !.indent2 = TRUE],
          added |-> <<"Added missing dependencies and devDependencies to package.json">>,
          raised |-> FALSE]

\* fix_package_json_issues: the file is rewritten, and a record appended,
\* only when a required package was missing.
fix_package_json_issues(m) ==
    IF m.kind = "absent" THEN NoChange(m)
    ELSE IF m.kind = "malformed"
         THEN [manifest |-> m, added |-> <<>>, raised |-> TRUE]
    ELSE IF Lacks(m.dependencies, RequiredDeps)
            \/ Lacks(m.devDependencies, RequiredDevDeps)
         THEN [manifest |->
                   [m EXCEPT
                       !.dependencies = AddMissing(m.dependencies, RequiredDeps),
                       !.devDependencies =
                           AddMissing(m.devDependencies, RequiredDevDeps),
                       !.indent2 = TRUE],
               added |-> <<"Added missing dependencies and devDependencies to package.json">>,
               raised |-> FALSE]
    ELSE NoChange(m)

\* One rule of the fixer runs on the project.
RunRule(name, r) ==
    /\ pt_steps < MaxPatchSteps
    /\ pt_steps' = pt_steps + 1
    /\ pt_prev' = pt_last
    /\ pt_last' = name
    /\ pt_before' = pt_manifest
    /\ pt_manifest' = r.manifest
    /\ pt_added' = r.added
    /\ pt_fixes' = pt_fixes \o r.added
    /\ pt_raised' = r.raised
    /\ UNCHANGED ptOthers

FixPackageJsonIssues ==
    RunRule("package_json", fix_package_json_issues(pt_manifest))

FixTurbopackErrors ==
    RunRule("turbopack", fix_turbopack_errors(pt_manifest))

PtIdle ==
    /\ pt_manifest = [kind |-> "absent"]
    /\ pt_fixes = <<>>
    /\ pt_last = "off"
    /\ pt_prev = "off"
    /\ pt_before = [kind |-> "absent"]
    /\ pt_added = <<>>
    /\ pt_raised = FALSE
    /\ pt_steps = 0

PtInit ==
    /\ pt_manifest \in Manifests
    /\ pt_fixes = <<>>
    /\ pt_last = "none"
    /\ pt_prev = "none"
    /\ pt_before = pt_manifest
    /\ pt_added = <<>>
    /\ pt_raised = FALSE
    /\ pt_steps = 0

PtNext == FixPackageJsonIssues \/ FixTurbopackErrors

(***************************************************************************)
(* Feedback loop (agent3_browser_testing.py, agent4_feedback_iteration.py, *)
(* step1_test_notion_extraction.py).  The document is a sequence of lines; *)
(* a line is a record of its kind, the timestamp of the feedback section   *)
(* it belongs to (0 outside feedback) and, for a summary, its text.        *)
(***************************************************************************)

MaxDocLines == 2
MaxWrites == 2

Line(kind) == [kind |-> kind, ts |-> 0, text |-> ""]

\* The lines a document can hold before any feedback: a markdown heading, a
\* line of at most 10 characters, a longer paragraph, an empty line.
PlainLines == {Line("heading"), Line("short"), Line("long"), Line("blank")}

\* The summaries handed to the writer: a one-line note, or the report of
\* generate_summary.
Summaries == {"brief", "report"}

\* feedback_content: the heading with the timestamp, the summary, the rule
\* and the signature (the empty lines carry no block of their own).
FeedbackLines(ts, summary) ==
    <<[kind |-> "fbhead", ts |-> ts, text |-> ""],
      [kind |-> "summary", ts |-> ts, text |-> summary],
      [kind |-> "rule", ts |-> ts, text |-> ""],
      [kind |-> "footer", ts |-> ts, text |-> ""]>>

\* len(line)
LineLen(l) ==
    CASE l.kind = "heading" -> 12
      [] l.kind = "short" -> 5
      [] l.kind = "long" -> 40
      [] l.kind = "blank" -> 0
      [] l.kind = "fbhead" -> 33
      [] l.kind = "summary" -> IF l.text = "brief" THEN 30 ELSE 450
      [] l.kind = "rule" -> 3
      [] l.kind = "footer" -> 49

\* line.startswith('#')
StartsWithHash(l) == l.kind \in {"heading", "fbhead"}

\* "if line.strip() and (line.startswith('#') or len(line.strip()) > 10)"
IsAnchor(l) == LineLen(l) > 0 /\ (StartsWithHash(l) \/ LineLen(l) > 10)

\* The index of the first line that can serve as anchor, 0 when there is
\* none.
AnchorLine(doc) ==
    IF \E i \in 1..Len(doc) : IsAnchor(doc[i])
    THEN CHOOSE i \in 1..Len(doc) :
             IsAnchor(doc[i]) /\ \A j \in 1..(i - 1) : ~IsAnchor(doc[j])
    ELSE 0

\* notion-update-page with command insert_content_after: the new lines go
\* right after the selected line.
InsertContentAfter(doc, at, lines) ==
    SubSeq(doc, 1, at) \o lines \o SubSeq(doc, at + 1, Len(doc))

\* What one call of the writer's subprocess can come to.
WriteOutcomes ==
    {"written", "fetch_failed", "tool_error", "timeout", "timeout_written"}

\* write_feedback_to_pixelpilot: fetch the page, pick the first heading or
\* long line as anchor, insert the section after it.
WriteFeedbackToPixelpilot ==
    /\ fb_pc = "ready"
    /\ fb_tries < MaxWrites
    /\ fb_tries' = fb_tries + 1
    /\ \E summary \in Summaries, outcome \in WriteOutcomes :
          LET at == AnchorLine(fb_doc)
              ts == fb_tries + 1
              lands == outcome \in {"written", "timeout_written"} /\ at > 0
          IN  /\ fb_doc' = IF lands
                           THEN InsertContentAfter(fb_doc, at,
                                                   FeedbackLines(ts, summary))
                           ELSE fb_doc
              /\ fb_written' = IF lands
                               THEN Append(fb_written,
                                           [ts |-> ts, summary |-> summary])
                               ELSE fb_written
              /\ fb_ret' = IF outcome \in {"timeout", "timeout_written"}
                           THEN "Feedback write timed out"
                           ELSE IF outcome = "written" /\ at > 0
                           THEN "Successfully added feedback to pixelpilot document"
                           ELSE "Failed to write feedback"
    /\ UNCHANGED <<fb_pc, fb_out, fbOthers>>

\* "specs_text[:500]": the number of characters of the preview.
PreviewLimit == 500

\* len("## Feedback")
MarkerLen == 11

\* The preview step 1 prints: the lines that fit into the room left, each
\* with the number of its characters that are kept; the line the cut falls
\* in is kept in part.
RECURSIVE Preview(_, _)
Preview(lines, room) ==
    IF lines = <<>> THEN <<>>
    ELSE LET l == Head(lines)
             n == LineLen(l)
         IN  IF n > room THEN <<[line |-> l, keep |-> room]>>
             ELSE <<[line |-> l, keep |-> n]>>
                  \o (IF room - n >= 1
                      THEN Preview(Tail(lines), room - n - 1)
                      ELSE <<>>)

\* "## Feedback" in the line, "---" in the line.
HasMarker(p) == p.line.kind = "fbhead" /\ p.keep >= MarkerLen
HasRule(p) == p.line.kind = "rule" /\ p.keep = LineLen(p.line)

\* full_content.split("## Feedback")[1:], each cut at its first "---": the
\* lines from a marker up to the next rule, the next marker or the end.
SectionAt(shown, i) ==
    LET stops == {j \in (i + 1)..Len(shown) :
                     HasRule(shown[j]) \/ HasMarker(shown[j])}
        last == IF stops = {} THEN Len(shown)
                ELSE (CHOOSE j \in stops : \A k \in stops : j <= k) - 1
    IN  SubSeq(shown, i, last)

NoFeedback == [kind |-> "NO_FEEDBACK", section |-> <<>>]

\* feedback_sections[-1] of the preview of the document.
LatestFeedback(doc) ==
    LET shown == Preview(doc, PreviewLimit)
        marks == {i \in 1..Len(shown) : HasMarker(shown[i])}
    IN  IF marks = {} THEN NoFeedback
        ELSE [kind |-> "SUCCESS",
              section |-> SectionAt(shown,
                                    CHOOSE i \in marks :
                                        \A k \in marks : k <= i)]

\* extract_feedback: run step 1 in a subprocess and take the last feedback
\* section of the preview it prints.
ExtractFeedback ==
    /\ fb_pc = "ready"
    /\ \E outcome \in {"printed", "failed", "timeout"} :
          fb_out' = CASE outcome = "printed" -> LatestFeedback(fb_doc)
                      [] outcome = "failed" ->
                             [kind |-> "FAILED", section |-> <<>>]
                      [] outcome = "timeout" ->
                             [kind |-> "ERROR", section |-> <<>>]
    /\ UNCHANGED <<fb_pc, fb_doc, fb_written, fb_tries, fb_ret, fbOthers>>

FbIdle ==
    /\ fb_pc = "off"
    /\ fb_doc = <<>>
    /\ fb_written = <<>>
    /\ fb_tries = 0
    /\ fb_ret = "none"
    /\ fb_out = [kind |-> "none", section |-> <<>>]

FbInit ==
    /\ fb_pc = "ready"
    /\ fb_doc \in UNION {[1..n -> PlainLines] : n \in 0..MaxDocLines}
    /\ fb_written = <<>>
    /\ fb_tries = 0
    /\ fb_ret = "none"
    /\ fb_out = [kind |-> "none", section |-> <<>>]

FbNext == WriteFeedbackToPixelpilot \/ ExtractFeedback

(***************************************************************************)
(* Automated error fixer, one whole run of detect_and_fix_all_errors on a  *)
(* project directory: package.json, tailwind.config.js, postcss.config.js, *)
(* next.config.js and one component source file, app/page.tsx.             *)
(***************************************************************************)

\* package.json of the project: missing, not parseable, or an object with or
\* without the flagged dev script and with or without the "next" package.
FxManifests ==
    {[kind |-> "absent"], [kind |-> "malformed"]}
    \cup [kind : {"object"},
          indent2 : {TRUE},
          dev : {[kind |-> "absent"],
                 [kind |-> "script", text |-> <<"next dev", " ", Flag>>]},
          dependencies : DepTables({"next"}),
          devDependencies : {[kind |-> "absent"]}]

\* next.config.js: missing, or a text that holds or lacks
\* 'const nextConfig = {' and 'images:'.
NextConfigs ==
    {[kind |-> "absent", decl |-> FALSE, images |-> FALSE]}
    \cup [kind : {"file"}, decl : BOOLEAN, images : BOOLEAN]

\* app/page.tsx: missing, or a text with or without 'use client', with or
\* without 'unsplash.com', and with the prop onLikeChange= absent, given a
\* name ({handleLike}), given an arrow function with a body in braces, or
\* given nothing ({}).
Pages ==
    {[kind |-> "absent", use_client |-> FALSE, unsplash |-> FALSE,
      prop |-> "none"]}
    \cup [kind : {"file"}, use_client : BOOLEAN, unsplash : BOOLEAN,
          prop : {"none", "name", "arrow", "empty"}]

Projects ==
    [manifest : FxManifests, tailwind : BOOLEAN, postcss : BOOLEAN,
     next_config : NextConfigs, page : Pages]

Unchanged(p) == [project |-> p, added |-> <<>>, raised |-> FALSE]

\* fix_tailwind_config: create the file when it is missing.
fix_tailwind_config(p) ==
    IF ~p.tailwind
    THEN [project |-> [p EXCEPT !.tailwind = TRUE],
          added |-> <<"Created missing tailwind.config.js">>,
          raised |-> FALSE]
    ELSE Unchanged(p)

\* fix_postcss_config: create the file when it is missing.
fix_postcss_config(p) ==
    IF ~p.postcss
    THEN [project |-> [p EXCEPT !.postcss = TRUE],
          added |-> <<"Created missing postcss.config.js">>,
          raised |-> FALSE]
    ELSE Unchanged(p)

\* 'unsplash.com' in self.get_all_file_contents()
get_all_file_contents_has_unsplash(p) ==
    p.page.kind = "file" /\ p.page.unsplash

\* fix_image_hostname_errors: insert the images block after
\* 'const nextConfig = {'.
fix_image_hostname_errors(p) ==
    IF p.next_config.kind = "absent" THEN Unchanged(p)
    ELSE IF /\ ~p.next_config.images
            /\ get_all_file_contents_has_unsplash(p)
            /\ p.next_config.decl
         THEN [project |-> [p EXCEPT !.next_config.images = TRUE],
               added |-> <<"Fixed Next.js image hostname configuration">>,
               raised |-> FALSE]
    ELSE Unchanged(p)

\* re.sub(r'\s*onLikeChange=\{[^}]+\}', '', line): a name is removed whole,
\* an arrow function up to its first closing brace, an empty value not at all.
StripProp(prop) ==
    CASE prop = "name" -> "none"
      [] prop = "arrow" -> "stray brace"
      [] OTHER -> prop

\* fix_client_component_errors on the one .tsx file.
fix_client_component_errors(p) ==
    IF p.page.kind = "absent" THEN Unchanged(p)
    ELSE IF /\ p.page.prop \in {"name", "arrow", "empty"}
            /\ ~p.page.use_client
            /\ StripProp(p.page.prop) # p.page.prop
         THEN [project |-> [p EXCEPT !.page.prop = StripProp(p.page.prop)],
               added |-> <<"Fixed Client Component boundaries in app/page.tsx">>,
               raised |-> FALSE]
    ELSE Unchanged(p)

\* The two rules on package.json, on a project.
OnManifest(p, r) ==
    [project |-> [p EXCEPT !.manifest = r.manifest],
     added |-> r.added,
     raised |-> r.raised]

\* The order with both rules on package.json ahead of the config files.
RuleOrderManifestFirst ==
    <<"package_json", "turbopack", "tailwind", "postcss", "image_hostname",
      "client_component">>

\* The calls of detect_and_fix_all_errors, in the order of the source.
RuleOrder ==
    <<"package_json", "tailwind", "postcss", "image_hostname", "turbopack",
      "client_component">>

ApplyRule(name, p) ==
    CASE name = "package_json" ->
             OnManifest(p, fix_package_json_issues(p.manifest))
      [] name = "tailwind" -> fix_tailwind_config(p)
      [] name = "postcss" -> fix_postcss_config(p)
      [] name = "image_hostname" -> fix_image_hostname_errors(p)
      [] name = "turbopack" -> OnManifest(p, fix_turbopack_errors(p.manifest))
      [] name = "client_component" -> fix_client_component_errors(p)

NoFixList == <<"no list">>

\* The next call of detect_and_fix_all_errors; an exception of the rule
\* leaves the method, the last rule is followed by the return.
CallRule(name) ==
    /\ fx_pc = "running"
    /\ Len(fx_ran) < Len(RuleOrder)
    /\ RuleOrder[Len(fx_ran) + 1] = name
    /\ LET r == ApplyRule(name, fx_project) IN
          /\ fx_ran' = Append(fx_ran, name)
          /\ fx_project' = r.project
          /\ fx_fixes' = fx_fixes \o r.added
          /\ fx_pc' = IF r.raised THEN "raised"
                      ELSE IF Len(fx_ran') = Len(RuleOrder) THEN "returned"
                      ELSE "running"
          /\ fx_ret' = IF fx_pc' = "returned" THEN fx_fixes' ELSE NoFixList
    /\ UNCHANGED <<fx_start, fxOthers>>

CallFixPackageJsonIssues == CallRule("package_json")
CallFixTailwindConfig == CallRule("tailwind")
CallFixPostcssConfig == CallRule("postcss")
CallFixImageHostnameErrors == CallRule("image_hostname")
CallFixTurbopackErrors == CallRule("turbopack")
CallFixClientComponentErrors == CallRule("client_component")

FxIdle ==
    /\ fx_pc = "off"
    /\ fx_project = [kind |-> "none"]
    /\ fx_start = [kind |-> "none"]
    /\ fx_fixes = <<>>
    /\ fx_ran = <<>>
    /\ fx_ret = NoFixList

FxInit ==
    /\ fx_pc = "running"
    /\ fx_project \in Projects
    /\ fx_start = fx_project
    /\ fx_fixes = <<>>
    /\ fx_ran = <<>>
    /\ fx_ret = NoFixList

FxNext ==
    \/ CallFixPackageJsonIssues
    \/ CallFixTailwindConfig
    \/ CallFixPostcssConfig
    \/ CallFixImageHostnameErrors
    \/ CallFixTurbopackErrors
    \/ CallFixClientComponentErrors

(***************************************************************************)
(* The final workflow (final_working_workflow.py): six stages in a row.    *)
(***************************************************************************)

Stages ==
    <<"notion_extraction", "v0_generation", "file_saving", "error_fixing",
      "npm_install", "dev_server_test">>

\* A Python value that is None or a string.
NoneValue == [kind |-> "None", text |-> <<>>]
Str(text) == [kind |-> "str", text |-> text]

\* "not x" for None and strings.
Falsy(x) == x.kind = "None" \/ x.text = <<>>

\* What test_notion_extraction hands to the workflow.
WfSpecs == {NoneValue, Str(<<>>), Str(<<"specs">>)}

\* FinalPixelPilotWorkflow.generate_with_v0: the content of the first
\* choice of a 200 answer, None for a missing key, another status, a missing
\* choice or any exception.
WfGenerateWithV0(env, resp) ==
    IF "V0_API_KEY" \notin env THEN NoneValue
    ELSE IF resp.kind = "exception" THEN NoneValue
    ELSE IF resp.status = HTTP_OK /\ Len(resp.choices) > 0
         THEN Str(resp.choices[1])
    ELSE NoneValue

\* files_saved: one for every file the generated text held.
CountFiles(p) ==
    (IF p.manifest.kind # "absent" THEN 1 ELSE 0)
    + (IF p.tailwind THEN 1 ELSE 0)
    + (IF p.postcss THEN 1 ELSE 0)
    + (IF p.next_config.kind # "absent" THEN 1 ELSE 0)
    + (IF p.page.kind # "absent" THEN 1 ELSE 0)

\* detect_and_fix_all_errors from rule i on: the fixes, or the exception of
\* the rule that raised.
RECURSIVE RunRules(_, _, _)
RunRules(p, fixes, i) ==
    IF i > Len(RuleOrder) THEN [fixes |-> fixes, raised |-> FALSE]
    ELSE LET r == ApplyRule(RuleOrder[i], p) IN
         IF r.raised THEN [fixes |-> fixes, raised |-> TRUE]
         ELSE RunRules(r.project, fixes \o r.added, i + 1)

auto_fix_project(p) == RunRules(p, <<>>, 1)

NoProject == [kind |-> "none"]

\* results["errors"].append(message); return results
FailStage(stage, message) ==
    /\ wf_results' = [wf_results EXCEPT !.errors = Append(@, message)]
    /\ wf_failed' = stage
    /\ wf_pc' = "returned"

\* results["steps"].append(stage), on to the next stage.
PassStage(stage, next) ==
    /\ wf_failed' = wf_failed
    /\ wf_pc' = next

\* Step 1: specs = await test_notion_extraction()
StepNotionExtraction ==
    /\ wf_pc = "notion_extraction"
    /\ wf_ran' = Append(wf_ran, "notion_extraction")
    /\ \E specs \in WfSpecs :
          IF Falsy(specs)
          THEN FailStage("notion_extraction", "Notion extraction failed")
          ELSE /\ wf_results' = [wf_results EXCEPT
                                    !.steps = Append(@, "notion_extraction")]
               /\ PassStage("notion_extraction", "v0_generation")
    /\ UNCHANGED <<wf_project, wfOthers>>

\* Step 2: generated_code = await self.generate_with_v0(specs)
StepV0Generation ==
    /\ wf_pc = "v0_generation"
    /\ wf_ran' = Append(wf_ran, "v0_generation")
    /\ \E env \in SUBSET {"V0_API_KEY"}, resp \in Responses :
          IF Falsy(WfGenerateWithV0(env, resp))
          THEN FailStage("v0_generation", "V0 code generation failed")
          ELSE /\ wf_results' = [wf_results EXCEPT
                                    !.steps = Append(@, "v0_generation")]
               /\ PassStage("v0_generation", "file_saving")
    /\ UNCHANGED <<wf_project, wfOthers>>

\* Step 3: files_saved = await self.save_project(generated_code, name);
\* save_project returns 0 when anything raised.
StepFileSaving ==
    /\ wf_pc = "file_saving"
    /\ wf_ran' = Append(wf_ran, "file_saving")
    /\ \E p \in Projects, raised \in BOOLEAN :
          LET files_saved == IF raised THEN 0 ELSE CountFiles(p) IN
          /\ wf_project' = p
          /\ IF files_saved = 0
             THEN FailStage("file_saving", "Failed to save project files")
             ELSE /\ wf_results' = [wf_results EXCEPT
                                       !.steps = Append(@, "file_saving"),
                                       !.project_dir = "set",
                                       !.files_generated = files_saved]
                  /\ PassStage("file_saving", "error_fixing")
    /\ UNCHANGED wfOthers

\* Step 4: fixes = auto_fix_project(self.project_dir); an exception is
\* caught by the except clause of run_workflow.
StepErrorFixing ==
    /\ wf_pc = "error_fixing"
    /\ wf_ran' = Append(wf_ran, "error_fixing")
    /\ LET r == auto_fix_project(wf_project) IN
          IF r.raised
          THEN FailStage("error_fixing", "Unexpected error: JSONDecodeError")
          ELSE /\ wf_results' = [wf_results EXCEPT
                                    !.steps = Append(@, "error_fixing"),
                                    !.fixes_applied = r.fixes]
               /\ PassStage("error_fixing", "npm_install")
    /\ UNCHANGED <<wf_project, wfOthers>>

\* Step 5: if not await self.install_deps()
StepNpmInstall ==
    /\ wf_pc = "npm_install"
    /\ wf_ran' = Append(wf_ran, "npm_install")
    /\ \E installed \in BOOLEAN :
          IF ~installed
          THEN FailStage("npm_install", "npm install failed")
          ELSE /\ wf_results' = [wf_results EXCEPT
                                    !.steps = Append(@, "npm_install")]
               /\ PassStage("npm_install", "dev_server_test")
    /\ UNCHANGED <<wf_project, wfOthers>>

\* Step 6: if not await self.test_dev_server(); then success and return.
StepDevServerTest ==
    /\ wf_pc = "dev_server_test"
    /\ wf_ran' = Append(wf_ran, "dev_server_test")
    /\ \E child \in {"running", "exited"} :
          IF FinalVerdict(child) = "False"
          THEN FailStage("dev_server_test", "Dev server test failed")
          ELSE /\ wf_results' = [wf_results EXCEPT
                                    !.steps = Append(@, "dev_server_test"),
                                    !.success = TRUE]
               /\ PassStage("dev_server_test", "returned")
    /\ UNCHANGED <<wf_project, wfOthers>>

\* results as run_workflow creates it.
FreshResults ==
    [success |-> FALSE, steps |-> <<>>, errors |-> <<>>,
     project_dir |-> "None", files_generated |-> 0, fixes_applied |-> <<>>]

WfIdle ==
    /\ wf_pc = "off"
    /\ wf_results = FreshResults
    /\ wf_project = NoProject
    /\ wf_ran = <<>>
    /\ wf_failed = "none"

WfInit ==
    /\ wf_pc = "notion_extraction"
    /\ wf_results = FreshResults
    /\ wf_project = NoProject
    /\ wf_ran = <<>>
    /\ wf_failed = "none"

WfNext ==
    \/ StepNotionExtraction
    \/ StepV0Generation
    \/ StepFileSaving
    \/ StepErrorFixing
    \/ StepNpmInstall
    \/ StepDevServerTest

(***************************************************************************)
(* Agent 3 workflow (agent3_browser_testing.py).  A string is a sequence   *)
(* of lines; the workflow only asks whether a string contains a marker.    *)
(***************************************************************************)

\* The markers a line contains, among those the workflow looks for.
Marks(line) ==
    CASE line = "Show Error states" -> {"Error"}
      [] line = "Missing: Error page" -> {"Error"}
      [] line = "Error: [Errno 12] Cannot allocate memory" -> {"Error"}
      [] line = "Login failed to load" -> {"failed"}
      [] line = "Browser testing failed: Traceback" -> {"failed"}
      [] line = "Successfully added feedback to pixelpilot document" ->
             {"Successfully"}
      [] OTHER -> {}

\* marker in text
Contains(text, marker) == \E i \in 1..Len(text) : marker \in Marks(text[i])

DashLine == "------------------------------"

\* A paragraph of 300 characters on one line.
LongLine == "para*300"

\* The specs text step 1 isolates from the Notion page (specs_text).
SpecTexts == {<<"Build a profile page">>,
              <<"Build a profile page", "Show Error states">>,
              <<"Build a profile page", DashLine, "Footer">>,
              <<LongLine, LongLine>>}

\* len(line) for the lines of the specs texts.
A3LineLen(line) ==
    CASE line = LongLine -> 300
      [] line = DashLine -> 30
      [] line = "Build a profile page" -> 20
      [] line = "Show Error states" -> 17
      [] line = "Footer" -> 6
      [] line = "para*199" -> 199
      [] line = "para*199..." -> 202
      [] OTHER -> 0

\* len('\n'.join(lines))
RECURSIVE JoinLen(_)
JoinLen(lines) ==
    IF lines = <<>> THEN 0
    ELSE IF Len(lines) = 1 THEN A3LineLen(lines[1])
    ELSE A3LineLen(Head(lines)) + 1 + JoinLen(Tail(lines))

\* line[:n]
CutLine(line, n) ==
    IF n >= A3LineLen(line) THEN line
    ELSE IF n = 0 THEN ""
    ELSE IF line = LongLine /\ n = 199 THEN "para*199"
    ELSE "cut"

\* line + "..."
Dots(line) == IF line = "para*199" THEN "para*199..." ELSE "..."

\* specs_text[:n], as lines.
RECURSIVE TakeChars(_, _)
TakeChars(lines, n) ==
    IF lines = <<>> THEN <<>>
    ELSE IF A3LineLen(Head(lines)) >= n \/ Len(lines) = 1
         THEN <<CutLine(Head(lines), n)>>
         ELSE <<Head(lines)>>
              \o TakeChars(Tail(lines), n - A3LineLen(Head(lines)) - 1)

\* specs_text[:500] + "..." if len(specs_text) > 500 else specs_text
SpecsPreview(text) ==
    IF JoinLen(text) > PreviewLimit
    THEN LET cut == TakeChars(text, PreviewLimit) IN
         SubSeq(cut, 1, Len(cut) - 1) \o <<Dots(cut[Len(cut)])>>
    ELSE text

\* What step1_test_notion_extraction.py prints after a successful fetch.
Step1Stdout(text) ==
    <<"Specs extracted successfully!", "Raw content length:",
      "Clean specs length:", "", "Clean specs preview:", DashLine>>
    \o SpecsPreview(text) \o <<DashLine, "">>

\* The loop of extract_specs over the lines of the output: the lines after
\* "Clean specs preview:", from the first dash line to the next one.
RECURSIVE SpecsLines(_, _, _)
SpecsLines(lines, specs_start, specs_lines) ==
    IF lines = <<>> THEN specs_lines
    ELSE IF Head(lines) = "Clean specs preview:"
         THEN SpecsLines(Tail(lines), TRUE, specs_lines)
    ELSE IF specs_start /\ Head(lines) = DashLine
         THEN IF specs_lines # <<>> THEN specs_lines
              ELSE SpecsLines(Tail(lines), specs_start, specs_lines)
    ELSE IF specs_start
         THEN SpecsLines(Tail(lines), specs_start,
                         Append(specs_lines, Head(lines)))
    ELSE SpecsLines(Tail(lines), specs_start, specs_lines)

\* '\n'.join(lines).strip(): empty lines at either end are dropped.
RECURSIVE StripLines(_)
StripLines(lines) ==
    IF lines = <<>> THEN <<>>
    ELSE IF Head(lines) = "" THEN StripLines(Tail(lines))
    ELSE IF lines[Len(lines)] = ""
         THEN StripLines(SubSeq(lines, 1, Len(lines) - 1))
    ELSE lines

\* extract_specs: the specs read back from the output of step 1 when the
\* subprocess exits with 0, else a FAILED or ERROR string.
extract_specs(outcome, text) ==
    CASE outcome = "ok" -> StripLines(SpecsLines(Step1Stdout(text), FALSE, <<>>))
      [] outcome = "failed" -> <<"FAILED: Could not extract specs from Notion">>
      [] outcome = "timeout" -> <<"ERROR: Specs extraction timed out">>
      [] outcome = "exception" ->
             <<"ERROR: [Errno 12] Cannot allocate memory">>

\* What the browser agent reports between ANALYSIS_START and ANALYSIS_END.
AnalysisTexts == {<<"SPEC COMPLIANCE: 8">>,
                  <<"SPEC COMPLIANCE: 8", "Login failed to load">>,
                  <<"SPEC COMPLIANCE: 8", "Missing: Error page">>}

\* browser_test_analysis: the analysis, a note when the markers are missing,
\* or a string telling of the failure, the timeout or the exception.
browser_test_analysis(outcome, text) ==
    CASE outcome = "ok" -> text
      [] outcome = "no markers" ->
             <<"Browser testing completed - see logs for details">>
      [] outcome = "failed" -> <<"Browser testing failed: Traceback">>
      [] outcome = "timeout" -> <<"Browser testing timed out">>
      [] outcome = "exception" ->
             <<"Error: [Errno 12] Cannot allocate memory">>

\* "Missing:" in line or "missing" in line.lower()
IsMissingLine(line) == line = "Missing: Error page"

\* generate_summary: the fixed frame with the lines of the analysis that
\* tell of something missing.
generate_summary(analysis) ==
    <<"IMPLEMENTATION SUMMARY">> \o SelectSeq(analysis, IsMissingLine)

\* What write_feedback_to_pixelpilot returns.
FeedbackResults ==
    {<<"Successfully added feedback to pixelpilot document">>,
     <<"Failed to write feedback: ">>,
     <<"Feedback write timed out">>}

NoText == <<>>

\* Step 1: specs = extract_specs(), then the test for "Error".
A3ExtractSpecs ==
    /\ a3_pc = "extract_specs"
    /\ \E outcome \in {"ok", "failed", "timeout", "exception"},
          text \in SpecTexts :
          /\ a3_calls' = Append(a3_calls, outcome)
          /\ a3_doc' = IF outcome = "ok" THEN text ELSE NoText
          /\ a3_specs' = extract_specs(outcome, text)
    /\ IF Contains(a3_specs', "Error") \/ Contains(a3_specs', "No specifications")
       THEN a3_pc' = "returned" /\ a3_ret' = "False"
       ELSE a3_pc' = "browser_test" /\ a3_ret' = a3_ret
    /\ UNCHANGED <<a3_url, a3_analysis, a3_summary, a3_feedback, a3Others>>

\* Step 2: analysis = browser_test_analysis(url, specs, project_name), then
\* the test for "Error" and "failed".
A3BrowserTest ==
    /\ a3_pc = "browser_test"
    /\ \E outcome \in {"ok", "no markers", "failed", "timeout", "exception"},
          text \in AnalysisTexts :
          /\ a3_calls' = Append(a3_calls, outcome)
          /\ a3_analysis' = browser_test_analysis(outcome, text)
    /\ IF Contains(a3_analysis', "Error") \/ Contains(a3_analysis', "failed")
       THEN a3_pc' = "returned" /\ a3_ret' = "False"
       ELSE a3_pc' = "summary" /\ a3_ret' = a3_ret
    /\ UNCHANGED <<a3_url, a3_doc, a3_specs, a3_summary, a3_feedback, a3Others>>

\* Step 3: summary = generate_summary(analysis, specs), then the test for
\* "Error".
A3GenerateSummary ==
    /\ a3_pc = "summary"
    /\ a3_calls' = Append(a3_calls, "ok")
    /\ a3_summary' = generate_summary(a3_analysis)
    /\ IF Contains(a3_summary', "Error")
       THEN a3_pc' = "returned" /\ a3_ret' = "False"
       ELSE a3_pc' = "write_feedback" /\ a3_ret' = a3_ret
    /\ UNCHANGED <<a3_url, a3_doc, a3_specs, a3_analysis, a3_feedback, a3Others>>

\* Step 4: feedback_result = write_feedback_to_pixelpilot(summary, name);
\* return "Successfully" in feedback_result.
A3WriteFeedback ==
    /\ a3_pc = "write_feedback"
    /\ \E result \in FeedbackResults :
          /\ a3_feedback' = result
          /\ a3_calls' = Append(a3_calls,
                                IF Contains(result, "Successfully") THEN "ok"
                                ELSE "failed")
    /\ a3_ret' = IF Contains(a3_feedback', "Successfully") THEN "True"
                 ELSE "False"
    /\ a3_pc' = "returned"
    /\ UNCHANGED <<a3_url, a3_doc, a3_specs, a3_analysis, a3_summary, a3Others>>

A3Idle ==
    /\ a3_pc = "off"
    /\ a3_url = "none"
    /\ a3_calls = <<>>
    /\ a3_doc = NoText
    /\ a3_specs = NoText
    /\ a3_analysis = NoText
    /\ a3_summary = NoText
    /\ a3_feedback = NoText
    /\ a3_ret = "none"

A3Init ==
    /\ a3_pc = "extract_specs"
    /\ a3_url \in {"https://pixelpilot.vercel.app", "http://localhost:3000"}
    /\ a3_calls = <<>>
    /\ a3_doc = NoText
    /\ a3_specs = NoText
    /\ a3_analysis = NoText
    /\ a3_summary = NoText
    /\ a3_feedback = NoText
    /\ a3_ret = "none"

A3Next ==
    A3ExtractSpecs \/ A3BrowserTest \/ A3GenerateSummary \/ A3WriteFeedback

(***************************************************************************)
(* Install step: install_dependencies of the deployment agent and          *)
(* install_deps of the final workflow with the branch of run_workflow that *)
(* follows it.  Time is counted in seconds.                                *)
(***************************************************************************)

\* How long past the timeout the model follows a wait.
MaxOverrun == 2

\* subprocess.run(..., timeout=120)
InstallTimeout == 120

\* result.stderr[:200]
DiagLimit == 200

\* len(result.stderr) of a failed npm install.
StderrLens == {0, 50, 300}

\* len(s[:n])
SliceLen(len, n) == IF len < n THEN len ELSE n

InstallResult(kind, diag) == [kind |-> kind, diag |-> diag]

NoInstallResult == InstallResult("none", 0)

NoNpmExit == [code |-> 0, stderr |-> 0]

\* What install_dependencies returns after npm exited.
Agent2InstallResult(exit) ==
    IF exit.code = 0 THEN InstallResult("SUCCESS", 0)
    ELSE InstallResult("FAILED", SliceLen(exit.stderr, DiagLimit))

\* What install_deps returns after npm exited: returncode == 0.
FinalInstallResult(exit) ==
    IF exit.code = 0 THEN InstallResult("True", 0)
    ELSE InstallResult("False", 0)

\* "if not await self.install_deps(): ... return results", else step 6.
DevServerAfter(result) ==
    IF result.kind = "True" THEN "started" ELSE "not started"

\* The call begins: the deployment agent checks the directory; npm is
\* spawned, or the spawn raises.
InstallStart ==
    /\ ins_pc = "start"
    /\ \E spawned \in BOOLEAN :
          IF ins_variant = "agent2" /\ ~ins_exists
          THEN /\ ins_ret' = InstallResult("FAILED", 0)
               /\ ins_pc' = "done"
               /\ ins_npm' = "none"
               /\ ins_dev' = ins_dev
          ELSE IF ~spawned \/ ~ins_exists
          THEN /\ ins_ret' = IF ins_variant = "agent2"
                             THEN InstallResult("ERROR", 0)
                             ELSE InstallResult("False", 0)
               /\ ins_pc' = "done"
               /\ ins_npm' = "none"
               /\ ins_dev' = ins_dev
          ELSE /\ ins_ret' = ins_ret
               /\ ins_pc' = "waiting"
               /\ ins_npm' = "running"
               /\ ins_dev' = ins_dev
    /\ UNCHANGED <<ins_variant, ins_exists, ins_clock, ins_exit, insOthers>>

\* npm exits and the call returns; in the final workflow run_workflow then
\* either records the failure and returns or goes on to the dev server.
NpmExits ==
    /\ ins_pc = "waiting"
    /\ ins_npm = "running"
    /\ ins_npm' = "exited"
    /\ ins_pc' = "done"
    /\ \E code \in {0, 1}, stderr \in StderrLens :
          ins_exit' = [code |-> code, stderr |-> stderr]
    /\ ins_ret' = IF ins_variant = "agent2" THEN Agent2InstallResult(ins_exit')
                  ELSE FinalInstallResult(ins_exit')
    /\ ins_dev' = IF ins_variant = "final" THEN DevServerAfter(ins_ret')
                  ELSE ins_dev
    /\ UNCHANGED <<ins_variant, ins_exists, ins_clock, insOthers>>

\* The seconds after which the caller stops waiting, 0 when it never does:
\* subprocess.run has timeout=120, process.communicate() has none.
WaitLimit(variant) == IF variant = "agent2" THEN InstallTimeout ELSE 0

\* One second passes while npm runs.
InstallTick ==
    /\ ins_pc = "waiting"
    /\ ins_npm = "running"
    /\ WaitLimit(ins_variant) > 0 => ins_clock < WaitLimit(ins_variant)
    /\ ins_clock < InstallTimeout + MaxOverrun
    /\ ins_clock' = ins_clock + 1
    /\ UNCHANGED <<ins_variant, ins_exists, ins_pc, ins_npm, ins_exit,
                   ins_ret, ins_dev, insOthers>>

\* subprocess.run kills npm and raises TimeoutExpired, which the except
\* clause turns into an ERROR string.
InstallTimesOut ==
    /\ ins_pc = "waiting"
    /\ ins_npm = "running"
    /\ WaitLimit(ins_variant) > 0
    /\ ins_clock = WaitLimit(ins_variant)
    /\ ins_npm' = "killed"
    /\ ins_pc' = "done"
    /\ ins_ret' = InstallResult("ERROR", 0)
    /\ UNCHANGED <<ins_variant, ins_exists, ins_clock, ins_exit, ins_dev,
                   insOthers>>

InsIdle ==
    /\ ins_variant = "off"
    /\ ins_exists = FALSE
    /\ ins_pc = "off"
    /\ ins_clock = 0
    /\ ins_npm = "none"
    /\ ins_exit = NoNpmExit
    /\ ins_ret = NoInstallResult
    /\ ins_dev = "not started"

InsInit ==
    /\ ins_variant \in {"agent2", "final"}
    /\ ins_exists \in BOOLEAN
    /\ ins_pc = "start"
    /\ ins_clock = 0
    /\ ins_npm = "none"
    /\ ins_exit = NoNpmExit
    /\ ins_ret = NoInstallResult
    /\ ins_dev = "not started"

InsNext == InstallStart \/ NpmExits \/ InstallTick \/ InstallTimesOut

(***************************************************************************)
(* Deployment (agent2_project_deployment.py, deploy_to_vercel).  The       *)
(* returned string is a sequence of its fixed and its variable parts.      *)
(***************************************************************************)

MaxOutputLines == 2

CliNotInstalled ==
    <<"FAILED: Vercel CLI not installed. Run: npm install -g vercel">>

ProjectNotFound(name) ==
    <<"FAILED: Project directory '", name, "' not found">>

\* subprocess.run(["vercel", "--version"], check=True): FileNotFoundError
\* when there is no such program, CalledProcessError when it exits with a
\* non-zero status; the inner except clause catches only FileNotFoundError.
VercelVersionCheckMissesAbsent(cli) ==
    CASE cli = "present" -> "ok"
      [] cli = "broken" -> "not installed"
      [] cli = "absent" -> "raised"

\* subprocess.run(["vercel", "--version"], check=True) inside
\* "except (subprocess.CalledProcessError, FileNotFoundError)".
VercelVersionCheck(cli) ==
    CASE cli = "present" -> "ok"
      [] cli = "broken" -> "not installed"
      [] cli = "absent" -> "not installed"

NoResult == [returncode |-> -1, stdout |-> <<>>, stderr |-> ""]

\* The lines the CLI can print, and what it can write to stderr.
OutputLines ==
    {"https://proj.vercel.app", "  https://proj.vercel.app  ",
     "Inspect: https://vercel.com/x", "Deploying"}

Outputs == UNION {[1..n -> OutputLines] : n \in 0..MaxOutputLines}

Stderrs == {"", "Error: not linked",
            "Vercel CLI not installed. Run: npm install -g vercel"}

\* 'https://' in line and '.vercel.app' in line
IsDeploymentUrl(line) ==
    line \in {"https://proj.vercel.app", "  https://proj.vercel.app  "}

\* line.strip()
StripLine(line) ==
    IF line = "  https://proj.vercel.app  " THEN "https://proj.vercel.app"
    ELSE line

\* The result of a deployment that exited with status 0.
Deployed(name, output) ==
    LET urls == SelectSeq(output, IsDeploymentUrl) IN
    IF urls # <<>>
    THEN <<"SUCCESS: Deployed '", name, "' to ", StripLine(urls[1])>>
    ELSE <<"SUCCESS: Deployed '", name, "' (check Vercel dashboard for URL)">>

\* error_msg = result.stderr[:200] if result.stderr else "Unknown error"
DeploymentError(stderr) ==
    <<"FAILED: Vercel deployment error - ",
      IF stderr = "" THEN "Unknown error" ELSE stderr>>

\* The directory test and the CLI test.
DeployCheck ==
    /\ dp_pc = "check"
    /\ IF ~dp_exists
       THEN dp_pc' = "done" /\ dp_ret' = ProjectNotFound(dp_name)
       ELSE CASE VercelVersionCheck(dp_cli) = "ok" ->
                     dp_pc' = "config" /\ dp_ret' = dp_ret
              [] VercelVersionCheck(dp_cli) = "not installed" ->
                     dp_pc' = "done" /\ dp_ret' = CliNotInstalled
              [] VercelVersionCheck(dp_cli) = "raised" ->
                     dp_pc' = "done"
                     /\ dp_ret' = <<"ERROR: ", "[Errno 2] No such file or directory: 'vercel'">>
    /\ UNCHANGED <<dp_name, dp_exists, dp_cli, dp_config, dp_invoked, dp_result,
                   dpOthers>>

\* vercel.json is written; a failure to write ends in the outer except.
DeployWriteConfig ==
    /\ dp_pc = "config"
    /\ \E written \in BOOLEAN :
          IF written
          THEN dp_config' = TRUE /\ dp_pc' = "deploy" /\ dp_ret' = dp_ret
          ELSE /\ dp_config' = dp_config
               /\ dp_pc' = "done"
               /\ dp_ret' = <<"ERROR: ", "[Errno 13] Permission denied">>
    /\ UNCHANGED <<dp_name, dp_exists, dp_cli, dp_invoked, dp_result, dpOthers>>

\* vercel --prod --yes --public --force, with timeout=300.
DeployRun ==
    /\ dp_pc = "deploy"
    /\ dp_invoked' = TRUE
    /\ dp_pc' = "done"
    /\ \/ \E code \in {0, 1}, output \in Outputs, stderr \in Stderrs :
            /\ dp_result' = [returncode |-> code, stdout |-> output,
                             stderr |-> stderr]
            /\ dp_ret' = IF code = 0 THEN Deployed(dp_name, output)
                         ELSE DeploymentError(stderr)
       \/ /\ dp_result' = dp_result
          /\ dp_ret' = <<"ERROR: ", "Command timed out after 300 seconds">>
    /\ UNCHANGED <<dp_name, dp_exists, dp_cli, dp_config, dpOthers>>

DpIdle ==
    /\ dp_pc = "off"
    /\ dp_name = "none"
    /\ dp_exists = FALSE
    /\ dp_cli = "absent"
    /\ dp_config = FALSE
    /\ dp_invoked = FALSE
    /\ dp_result = NoResult
    /\ dp_ret = NoText

DpInit ==
    /\ dp_pc = "check"
    /\ dp_name \in {"pixelpilot-v0-test", "pixelpilot-project"}
    /\ dp_exists \in BOOLEAN
    /\ dp_cli \in {"present", "absent", "broken"}
    /\ dp_config = FALSE
    /\ dp_invoked = FALSE
    /\ dp_result = NoResult
    /\ dp_ret = NoText

DpNext == DeployCheck \/ DeployWriteConfig \/ DeployRun

(***************************************************************************)
(* Orchestrator (main files/pixelpilot_orchestrator.py).  A child's output *)
(* is the sequence of the lines it printed.                                *)
(***************************************************************************)

OrNone == "<None>"

\* How a child ended: Popen raised, or the child exited with a code after
\* printing its output.
NotRun == [kind |-> "none", code |-> 0, output |-> <<>>]
PopenRaised == [kind |-> "raised", code |-> 0, output |-> <<>>]
Exited(code, output) == [kind |-> "exited", code |-> code, output |-> output]

\* What agent 1 can print.
Agent1Outputs ==
    {<<"Created project 'pixelpilot-project'">>,
     <<"Build a profile page", "Created project 'shop'">>,
     <<"Build a profile page">>,
     <<"Saved 12 files to pixelpilot-project/">>,
     <<"FAILED: Could not extract specs from Notion">>}

\* re.search(patterns[k], line): group 1 of the match, OrNone without one.
MatchPattern(k, line) ==
    CASE k = 1 /\ line = "Created project 'pixelpilot-project'" ->
             "pixelpilot-project"
      [] k = 1 /\ line = "Created project 'shop'" -> "shop"
      [] k = 4 /\ line = "Created project 'pixelpilot-project'" ->
             "pixelpilot-project"
      [] k = 4 /\ line = "Saved 12 files to pixelpilot-project/" ->
             "pixelpilot-project"
      [] k = 7 /\ line = "Build a profile page" -> "profile"
      [] OTHER -> OrNone

NumPatterns == 7

\* re.search(pattern, full_output): the match in the first line that has one.
SearchPattern(k, output) ==
    LET hits == SelectSeq(output, LAMBDA l : MatchPattern(k, l) # OrNone) IN
    IF hits = <<>> THEN OrNone ELSE MatchPattern(k, hits[1])

\* The loop over the patterns: the first pattern that matches anywhere.
RECURSIVE ExtractProjectName(_, _)
ExtractProjectName(k, output) ==
    IF k > NumPatterns THEN OrNone
    ELSE IF SearchPattern(k, output) # OrNone THEN SearchPattern(k, output)
    ELSE ExtractProjectName(k + 1, output)

\* run_agent1: the project name when the child exited with 0 and a pattern
\* matched, else None.
run_agent1(child) ==
    IF child.kind = "exited" /\ child.code = 0
    THEN ExtractProjectName(1, child.output)
    ELSE OrNone

\* What agent 2 can print.
Agent2Outputs ==
    {<<"SUCCESS: Deployed 'shop' to https://shop.vercel.app">>,
     <<"Preview https://shop-git.vercel.app", "https://shop.vercel.app">>,
     <<"FAILED: Vercel CLI not installed. Run: npm install -g vercel">>,
     <<"Local server at http://localhost:3000">>}

\* re.search(r"https://[^\s]+\.vercel\.app", line)
UrlIn(line) ==
    CASE line = "SUCCESS: Deployed 'shop' to https://shop.vercel.app" ->
             "https://shop.vercel.app"
      [] line = "Preview https://shop-git.vercel.app" ->
             "https://shop-git.vercel.app"
      [] line = "https://shop.vercel.app" -> "https://shop.vercel.app"
      [] OTHER -> OrNone

\* run_agent2: the first deployment URL of the output, "completed" without
\* one, None when the child did not exit with 0.
run_agent2(child) ==
    IF child.kind = "exited" /\ child.code = 0
    THEN LET hits == SelectSeq(child.output, LAMBDA l : UrlIn(l) # OrNone) IN
         IF hits = <<>> THEN "completed" ELSE UrlIn(hits[1])
    ELSE OrNone

\* deployment_result.startswith("https://")
StartsWithHttps(text) ==
    text \in {"https://shop.vercel.app", "https://shop-git.vercel.app"}

\* The test of the two-agent orchestrator: "if not deployment_result".
DeploymentAcceptedAnyResult(result) == result # OrNone

\* not (not deployment_result or not deployment_result.startswith("https://"))
DeploymentAccepted(result) == result # OrNone /\ StartsWithHttps(result)

\* What the child of run_agent3 can print: the lines of run_agent3_workflow,
\* then the verdict line.
Agent3Outputs ==
    {<<"AGENT 3 WORKFLOW COMPLETE", "SUCCESS: Agent 3 completed successfully">>,
     <<"Agent 3 failed at Step 1: ERROR: Specs extraction timed out",
       "FAILED: Agent 3 failed">>,
     <<"Agent 3 failed at Step 2: OVERALL: SUCCESS, but Login failed to load",
       "FAILED: Agent 3 failed">>,
     <<"Traceback (most recent call last):">>,
     <<>>}

\* "SUCCESS" in line
HasSuccess(line) ==
    line \in {"SUCCESS: Agent 3 completed successfully",
              "Agent 3 failed at Step 2: OVERALL: SUCCESS, but Login failed to load"}

\* run_agent3: process.returncode == 0 and "SUCCESS" in full_output
run_agent3(child) ==
    /\ child.kind = "exited"
    /\ child.code = 0
    /\ \E i \in 1..Len(child.output) : HasSuccess(child.output[i])

\* The children: raised at Popen, or exited with 0 or 1.
Children(outputs) ==
    {PopenRaised} \cup {Exited(code, out) : code \in {0, 1}, out \in outputs}

\* Step 1 of main.
OrRunAgent1 ==
    /\ or_pc = "agent1"
    /\ or_started' = Append(or_started, 1)
    /\ \E child \in Children(Agent1Outputs) :
          /\ or_a1' = child
          /\ or_project' = run_agent1(child)
    /\ IF or_project' = OrNone
       THEN or_pc' = "done" /\ or_report' = "Workflow failed at Agent 1"
       ELSE or_pc' = "agent2" /\ or_report' = or_report
    /\ UNCHANGED <<or_a2, or_a3, or_deploy, orOthers>>

\* Step 2 of main.
OrRunAgent2 ==
    /\ or_pc = "agent2"
    /\ or_started' = Append(or_started, 2)
    /\ \E child \in Children(Agent2Outputs) :
          /\ or_a2' = child
          /\ or_deploy' = run_agent2(child)
    /\ IF ~DeploymentAccepted(or_deploy')
       THEN /\ or_pc' = "done"
            /\ or_report' = "Workflow failed at Agent 2 - no deployment URL"
       ELSE or_pc' = "agent3" /\ or_report' = or_report
    /\ UNCHANGED <<or_a1, or_a3, or_project, orOthers>>

\* Step 3 of main and the closing report.
OrRunAgent3 ==
    /\ or_pc = "agent3"
    /\ or_started' = Append(or_started, 3)
    /\ \E child \in Children(Agent3Outputs) : or_a3' = child
    /\ or_pc' = "done"
    /\ or_report' = IF run_agent3(or_a3') THEN "PIXELPILOT WORKFLOW COMPLETE!"
                    ELSE "Workflow failed at Agent 3"
    /\ UNCHANGED <<or_a1, or_a2, or_project, or_deploy, orOthers>>

OrIdle ==
    /\ or_pc = "off"
    /\ or_started = <<>>
    /\ or_a1 = NotRun
    /\ or_a2 = NotRun
    /\ or_a3 = NotRun
    /\ or_project = OrNone
    /\ or_deploy = OrNone
    /\ or_report = "none"

OrInit ==
    /\ or_pc = "agent1"
    /\ or_started = <<>>
    /\ or_a1 = NotRun
    /\ or_a2 = NotRun
    /\ or_a3 = NotRun
    /\ or_project = OrNone
    /\ or_deploy = OrNone
    /\ or_report = "none"

OrNext == OrRunAgent1 \/ OrRunAgent2 \/ OrRunAgent3

(***************************************************************************)
(* Agent 4 workflow (agent4_feedback_iteration.py).  A string is a         *)
(* sequence of lines; the tools and the driver ask which tags it contains. *)
(***************************************************************************)

\* The tags a line contains, among those the tools and the driver look for.
Tags(line) ==
    CASE line = "SUCCESS: Latest feedback extracted:" -> {"SUCCESS"}
      [] line = "SUCCESS: Feedback analysis:" -> {"SUCCESS"}
      [] line = "SUCCESS: Code modified based on feedback" -> {"SUCCESS"}
      [] line = "SUCCESS: Validation passed - 3 files checked" -> {"SUCCESS"}
      [] line = "NO_FEEDBACK: No feedback sections found in document" ->
             {"NO_FEEDBACK"}
      [] line = "FAILED: Could not extract content from Notion" -> {"FAILED"}
      [] line = "FAILED: Code modification failed: " -> {"FAILED"}
      [] line = "FAILED: Code modification failed: Traceback" -> {"FAILED"}
      [] line = "ERROR: Command timed out after 30 seconds" -> {"ERROR"}
      [] line = "ERROR: Command timed out after 120 seconds" -> {"ERROR"}
      [] line = "ERROR: [Errno 12] Cannot allocate memory" -> {"ERROR"}
      [] line = "ERROR: list index out of range" -> {"ERROR"}
      [] line = "ERROR: Project directory not found: ./" -> {"ERROR"}
      [] line = "- Show ERROR banner" -> {"ERROR"}
      [] line = "Show ERROR banner" -> {"ERROR"}
      [] OTHER -> {}

\* tag in text
HasTag(text, tag) == \E i \in 1..Len(text) : tag \in Tags(text[i])

\* The latest feedback section of the document.
FeedbackSections ==
    {<<"## Feedback", "WHAT'S MISSING", "- Like button">>,
     <<"## Feedback", "WHAT'S MISSING", "- Like button", "RECOMMENDATIONS",
       "- Larger avatar">>,
     <<"## Feedback", "RECOMMENDATIONS", "- Show ERROR banner">>,
     <<"## Feedback", "Looks complete">>}

\* extract_feedback: the latest section behind a SUCCESS tag, or a
\* NO_FEEDBACK, FAILED or ERROR string.
A4ExtractFeedback(outcome, section) ==
    CASE outcome = "ok" -> <<"SUCCESS: Latest feedback extracted:">> \o section
      [] outcome = "no sections" ->
             <<"NO_FEEDBACK: No feedback sections found in document">>
      [] outcome = "failed" ->
             <<"FAILED: Could not extract content from Notion">>
      [] outcome = "timeout" ->
             <<"ERROR: Command timed out after 30 seconds">>
      [] outcome = "exception" ->
             <<"ERROR: [Errno 12] Cannot allocate memory">>

\* line[2:] for a line starting with "- ".
Item(line) ==
    CASE line = "- Like button" -> "Like button"
      [] line = "- Larger avatar" -> "Larger avatar"
      [] line = "- Show ERROR banner" -> "Show ERROR banner"
      [] OTHER -> line

\* line.startswith('- ')
IsItemLine(line) ==
    line \in {"- Like button", "- Larger avatar", "- Show ERROR banner"}

\* The loop of analyze_feedback: the items under WHAT'S MISSING and under
\* RECOMMENDATIONS, in the order of the text.
RECURSIVE ActionItems(_, _)
ActionItems(lines, current_section) ==
    IF lines = <<>> THEN <<>>
    ELSE IF Head(lines) = "WHAT'S MISSING"
         THEN ActionItems(Tail(lines), "missing")
    ELSE IF Head(lines) = "RECOMMENDATIONS"
         THEN ActionItems(Tail(lines), "recommendations")
    ELSE IF IsItemLine(Head(lines)) /\ current_section # "none"
         THEN <<Item(Head(lines))>> \o ActionItems(Tail(lines), current_section)
    ELSE ActionItems(Tail(lines), current_section)

\* analyze_feedback: a NO_FEEDBACK or FAILED string is handed back as it is;
\* else the items behind "SUCCESS: Feedback analysis:".
analyze_feedback(feedback) ==
    IF HasTag(feedback, "NO_FEEDBACK") \/ HasTag(feedback, "FAILED")
    THEN feedback
    ELSE <<"SUCCESS: Feedback analysis:">> \o ActionItems(feedback, "none")

\* How the code-generating child of modify_code can end.
ModifyChildren ==
    {"success", "no success line", "exit 1", "exit 1 silent", "timeout",
     "not started"}

\* modify_code: the string returned, and whether the temporary specs file is
\* left behind.  The file is written before subprocess.run and removed
\* after it returned; an exception of subprocess.run goes to the except
\* clause, past the removal.
modify_code(analysis, name, exists, child) ==
    IF HasTag(analysis, "ERROR") \/ HasTag(analysis, "NO_FEEDBACK")
    THEN [ret |-> analysis, tmp |-> FALSE]
    ELSE IF analysis = <<>> \/ Head(analysis) # "SUCCESS: Feedback analysis:"
    THEN [ret |-> <<"ERROR: list index out of range">>, tmp |-> FALSE]
    ELSE IF Tail(analysis) = <<>>
    THEN [ret |-> <<"NO_CHANGES: No actionable items found in feedback">>,
          tmp |-> FALSE]
    ELSE IF ~exists
    THEN [ret |-> <<"ERROR: Project directory not found: ./", name>>,
          tmp |-> FALSE]
    ELSE CASE child = "success" ->
                  [ret |-> <<"SUCCESS: Code modified based on feedback">>,
                   tmp |-> FALSE]
           [] child = "no success line" ->
                  [ret |-> <<"FAILED: Code modification failed: ">>,
                   tmp |-> FALSE]
           [] child = "exit 1" ->
                  [ret |-> <<"FAILED: Code modification failed: Traceback">>,
                   tmp |-> FALSE]
           [] child = "exit 1 silent" ->
                  [ret |-> <<"FAILED: Code modification failed: ">>,
                   tmp |-> FALSE]
           [] child = "timeout" ->
                  [ret |-> <<"ERROR: Command timed out after 120 seconds">>,
                   tmp |-> TRUE]
           [] child = "not started" ->
                  [ret |-> <<"ERROR: [Errno 12] Cannot allocate memory">>,
                   tmp |-> TRUE]

\* validate_changes: ERROR without the project directory, WARNING when
\* package.json or next.config.js is missing, else SUCCESS.
validate_changes(name, exists, complete) ==
    IF ~exists THEN <<"ERROR: Project directory not found: ./", name>>
    ELSE IF ~complete THEN <<"WARNING: Missing files: next.config.js">>
    ELSE <<"SUCCESS: Validation passed - 3 files checked">>

\* The driver after a step: "Agent 4 failed at Step N" and False when the
\* result holds one of the tags of halt, else the next step.
A4Check(step, result, halt, next) ==
    /\ a4_results' = Append(a4_results, result)
    /\ IF \E tag \in halt : HasTag(result, tag)
       THEN a4_pc' = "returned" /\ a4_reported' = step /\ a4_ret' = "False"
       ELSE /\ a4_pc' = next
            /\ a4_reported' = a4_reported
            /\ a4_ret' = IF next = "returned" THEN "True" ELSE a4_ret

\* Step 1: feedback = extract_feedback(project_name)
A4StepExtract ==
    /\ a4_pc = "extract"
    /\ \E outcome \in {"ok", "no sections", "failed", "timeout", "exception"},
          section \in FeedbackSections :
          A4Check(1, A4ExtractFeedback(outcome, section),
                  {"ERROR", "NO_FEEDBACK"}, "analyze")
    /\ UNCHANGED <<a4_name, a4_exists, a4_tmp, a4Others>>

\* Step 2: analysis = analyze_feedback(feedback)
A4StepAnalyze ==
    /\ a4_pc = "analyze"
    /\ A4Check(2, analyze_feedback(a4_results[1]), {"ERROR"}, "modify")
    /\ UNCHANGED <<a4_name, a4_exists, a4_tmp, a4Others>>

\* Step 3: modifications = modify_code(analysis, project_name)
A4StepModify ==
    /\ a4_pc = "modify"
    /\ \E child \in ModifyChildren :
          LET r == modify_code(a4_results[2], a4_name, a4_exists, child) IN
          /\ A4Check(3, r.ret, {"ERROR"}, "validate")
          /\ a4_tmp' = r.tmp
    /\ UNCHANGED <<a4_name, a4_exists, a4Others>>

\* Step 4: validation = validate_changes(project_name), then True.
A4StepValidate ==
    /\ a4_pc = "validate"
    /\ \E complete \in BOOLEAN :
          A4Check(4, validate_changes(a4_name, a4_exists, complete), {"ERROR"},
                  "returned")
    /\ UNCHANGED <<a4_name, a4_exists, a4_tmp, a4Others>>

A4Idle ==
    /\ a4_pc = "off"
    /\ a4_name = "none"
    /\ a4_exists = FALSE
    /\ a4_results = <<>>
    /\ a4_tmp = FALSE
    /\ a4_reported = 0
    /\ a4_ret = "none"

A4Init ==
    /\ a4_pc = "extract"
    /\ a4_name \in {"pixelpilot-project", "shop"}
    /\ a4_exists \in BOOLEAN
    /\ a4_results = <<>>
    /\ a4_tmp = FALSE
    /\ a4_reported = 0
    /\ a4_ret = "none"

A4Next == A4StepExtract \/ A4StepAnalyze \/ A4StepModify \/ A4StepValidate

(***************************************************************************)
(* Line-based file-block parser (parse_v0_response of test_v0_parser.py,   *)
(* save_project of final_working_workflow.py, save_project_files of        *)
(* dedalus_pixelpilot_workflow.py: the same loop).                         *)
(***************************************************************************)

MaxTextLines == 4

\* The lines of the text; <fence> stands for the three backquotes.
OpenPage == "<fence>tsx file=\"app/page.tsx\""
OpenManifest == "<fence>json file=\"package.json\""
OpenUnquoted == "<fence>tsx file=app/page.tsx"
Fence == "<fence>"
ThinkingLine == "<Thinking>plan</Thinking>"

TextLines ==
    {OpenPage, OpenManifest, OpenUnquoted, Fence, ThinkingLine, "", "code"}

ParserTexts == UNION {[1..n -> TextLines] : n \in 0..MaxTextLines}

\* '<Thinking>' in line or '</Thinking>' in line
IsThinking(line) == line = ThinkingLine

\* line.startswith of the three backquotes
StartsWithFence(line) ==
    line \in {OpenPage, OpenManifest, OpenUnquoted, Fence}

\* 'file=' in line
HasFileAttr(line) == line \in {OpenPage, OpenManifest, OpenUnquoted}

\* re.search(r'file="([^"]+)"', line): the path, "" without a match.
FilePath(line) ==
    CASE line = OpenPage -> "app/page.tsx"
      [] line = OpenManifest -> "package.json"
      [] OTHER -> ""

\* The state of the loop; current_file is "" for None.
ParserStart ==
    [current_file |-> "", current_content |-> <<>>, in_code_block |-> FALSE,
     writes |-> <<>>, files_saved |-> 0]

\* "if current_file and current_content: save_file(...); files_saved += 1";
\* save_file writes content.strip().
SavePending(st) ==
    IF st.current_file # "" /\ st.current_content # <<>>
    THEN [st EXCEPT !.writes = Append(@, <<st.current_file,
                                           StripLines(st.current_content)>>),
                    !.files_saved = @ + 1]
    ELSE st

\* One pass of the loop body.
ParseLine(st, line) ==
    IF IsThinking(line) THEN st
    ELSE IF StartsWithFence(line) /\ HasFileAttr(line)
    THEN LET saved == SavePending(st) IN
         IF FilePath(line) # ""
         THEN [saved EXCEPT !.current_file = FilePath(line),
                            !.current_content = <<>>,
                            !.in_code_block = TRUE]
         ELSE saved
    ELSE IF StartsWithFence(line) /\ st.in_code_block
    THEN [SavePending(st) EXCEPT !.current_file = "",
                                 !.current_content = <<>>,
                                 !.in_code_block = FALSE]
    ELSE IF st.in_code_block /\ st.current_file # ""
    THEN [st EXCEPT !.current_content = Append(@, line)]
    ELSE st

\* The loop over the lines, then "Save last file".
RECURSIVE ParseLines(_, _)
ParseLines(st, lines) ==
    IF lines = <<>> THEN SavePending(st)
    ELSE ParseLines(ParseLine(st, Head(lines)), Tail(lines))

\* parse_v0_response(content, project_dir)
ParseV0Response ==
    /\ lp_pc = "start"
    /\ lp_pc' = "done"
    /\ LET st == ParseLines(ParserStart, lp_text) IN
       /\ lp_writes' = st.writes
       /\ lp_count' = st.files_saved
    /\ UNCHANGED <<lp_text, lpOthers>>

LpIdle ==
    /\ lp_pc = "off"
    /\ lp_text = <<>>
    /\ lp_writes = <<>>
    /\ lp_count = 0

LpInit ==
    /\ lp_pc = "start"
    /\ lp_text \in ParserTexts
    /\ lp_writes = <<>>
    /\ lp_count = 0

LpNext == ParseV0Response

(***************************************************************************)
(* Notion MCP client (notion_mcp_client.py).                               *)
(***************************************************************************)

MaxClientCalls == 3

\* How the body of connect() can go: the stdio transport cannot be entered,
\* session.initialize() raises, or both succeed.
ConnectOutcomes == {"transport failed", "initialize failed", "connected"}

\* connect(): returns at once when session is not None; else stdio_context
\* is assigned, then session, then session.initialize() is awaited; the
\* except clause logs and raises again.
connect(session, stdio, outcome) ==
    IF session # "None"
    THEN [session |-> session, stdio |-> stdio, raised |-> FALSE]
    ELSE CASE outcome = "transport failed" ->
                  [session |-> "None", stdio |-> "set", raised |-> TRUE]
           [] outcome = "initialize failed" ->
                  [session |-> "created", stdio |-> "set", raised |-> TRUE]
           [] outcome = "connected" ->
                  [session |-> "initialized", stdio |-> "set",
                   raised |-> FALSE]

NcCall(op, result) == [op |-> op, result |-> result]

\* await client.connect()
NcConnect ==
    /\ Len(nc_log) < MaxClientCalls
    /\ \E outcome \in ConnectOutcomes :
          LET c == connect(nc_session, nc_stdio, outcome) IN
          /\ nc_session' = c.session
          /\ nc_stdio' = c.stdio
          /\ nc_log' = Append(nc_log,
                              NcCall("connect",
                                     IF c.raised THEN outcome ELSE "returned"))
    /\ UNCHANGED <<nc_uninit, ncOthers>>

\* await client.call_tool(name, arguments): connect() when there is no
\* session, then session.call_tool.
NcCallTool ==
    /\ Len(nc_log) < MaxClientCalls
    /\ \E outcome \in ConnectOutcomes, answered \in BOOLEAN :
          LET c == IF nc_session = "None"
                   THEN connect(nc_session, nc_stdio, outcome)
                   ELSE [session |-> nc_session, stdio |-> nc_stdio,
                         raised |-> FALSE]
          IN
          /\ nc_session' = c.session
          /\ nc_stdio' = c.stdio
          /\ nc_uninit' = (nc_uninit \/ (~c.raised /\ c.session = "created"))
          /\ nc_log' = Append(nc_log,
                              NcCall("call_tool",
                                     IF c.raised THEN outcome
                                     ELSE IF answered THEN "answered"
                                     ELSE "request raised"))
    /\ UNCHANGED ncOthers

\* await client.disconnect(): session.close() may raise before anything is
\* reset.
NcDisconnect ==
    /\ Len(nc_log) < MaxClientCalls
    /\ \E closed \in BOOLEAN :
          IF nc_session # "None" /\ ~closed
          THEN /\ nc_log' = Append(nc_log, NcCall("disconnect", "close raised"))
               /\ UNCHANGED <<nc_session, nc_stdio>>
          ELSE /\ nc_session' = "None"
               /\ nc_stdio' = "None"
               /\ nc_log' = Append(nc_log, NcCall("disconnect", "returned"))
    /\ UNCHANGED <<nc_uninit, ncOthers>>

NcIdle ==
    /\ nc_session = "off"
    /\ nc_stdio = "off"
    /\ nc_log = <<>>
    /\ nc_uninit = FALSE

\* NotionMCPClient()
NcInit ==
    /\ nc_session = "None"
    /\ nc_stdio = "None"
    /\ nc_log = <<>>
    /\ nc_uninit = FALSE

NcNext == NcConnect \/ NcCallTool \/ NcDisconnect

(***************************************************************************)
(* The orchestrator and one agent process, joined by two pipes             *)
(* (pixelpilot_orchestrator.py, run_agent1 / run_agent2 / run_agent3).     *)
(* stdout=PIPE and stderr=PIPE give the child two pipes of limited size:   *)
(* a write to a full pipe blocks until the other end reads.                *)
(***************************************************************************)

\* What fits in a pipe before a write blocks, counted in writes.
PipeCapacity == 2
MaxChildWrites == 4

RECURSIVE WritesOfLen(_)
WritesOfLen(n) ==
    IF n = 0 THEN {<<>>}
    ELSE {Append(w, s) : w \in WritesOfLen(n - 1), s \in {"out", "err"}}

\* The programs of the child: each writes lines to stdout and chunks to
\* stderr in some order and then exits.
ChildPrograms == UNION {WritesOfLen(n) : n \in 0..MaxChildWrites}

\* The child writes its next line or chunk; the write goes through only
\* when its pipe has room.
PpChildWrite ==
    /\ pp_child = "running"
    /\ pp_todo # <<>>
    /\ IF Head(pp_todo) = "out"
       THEN /\ pp_stdout < PipeCapacity
            /\ pp_stdout' = pp_stdout + 1
            /\ UNCHANGED pp_stderr
       ELSE /\ pp_stderr < PipeCapacity
            /\ pp_stderr' = pp_stderr + 1
            /\ UNCHANGED pp_stdout
    /\ pp_todo' = Tail(pp_todo)
    /\ UNCHANGED <<pp_parent, pp_child, pp_code, pp_lines, pp_err, ppOthers>>

\* The child has nothing left to write and exits; its ends of the pipes
\* are closed.
PpChildExit ==
    /\ pp_child = "running"
    /\ pp_todo = <<>>
    /\ pp_child' = "exited"
    /\ \E code \in {0, 1} : pp_code' = code
    /\ UNCHANGED <<pp_parent, pp_todo, pp_stdout, pp_stderr, pp_lines,
                   pp_err, ppOthers>>

\* output = process.stdout.readline() returns a line; it is printed and
\* appended to output_lines.
PpReadLine ==
    /\ pp_parent = "readline"
    /\ pp_stdout > 0
    /\ pp_stdout' = pp_stdout - 1
    /\ pp_lines' = pp_lines + 1
    /\ UNCHANGED <<pp_parent, pp_todo, pp_child, pp_code, pp_stderr, pp_err,
                   ppOthers>>

\* readline() returns '' at end of file, which is when the pipe is empty
\* and the child has closed it; process.poll() is then not None: break.
PpReadEof ==
    /\ pp_parent = "readline"
    /\ pp_stdout = 0
    /\ pp_child = "exited"
    /\ pp_parent' = "wait"
    /\ UNCHANGED <<pp_todo, pp_child, pp_code, pp_stdout, pp_stderr,
                   pp_lines, pp_err, ppOthers>>

\* process.wait(), then the test of returncode; process.stderr.read() is
\* called in the failure branch only.
PpWaitAndReturn ==
    /\ pp_parent = "wait"
    /\ pp_child = "exited"
    /\ IF pp_code = 0
       THEN UNCHANGED <<pp_stderr, pp_err>>
       ELSE /\ pp_err' = pp_stderr
            /\ pp_stderr' = 0
    /\ pp_parent' = "returned"
    /\ UNCHANGED <<pp_todo, pp_child, pp_code, pp_stdout, pp_lines, ppOthers>>

PpIdle ==
    /\ pp_parent = "off"
    /\ pp_todo = <<>>
    /\ pp_child = "off"
    /\ pp_code = 0
    /\ pp_stdout = 0
    /\ pp_stderr = 0
    /\ pp_lines = 0
    /\ pp_err = 0

\* subprocess.Popen(..., stdout=PIPE, stderr=PIPE) has returned.
PpInit ==
    /\ pp_parent = "readline"
    /\ pp_todo \in ChildPrograms
    /\ pp_child = "running"
    /\ pp_code = 0
    /\ pp_stdout = 0
    /\ pp_stderr = 0
    /\ pp_lines = 0
    /\ pp_err = 0

PpNext ==
    \/ PpChildWrite
    \/ PpChildExit
    \/ PpReadLine
    \/ PpReadEof
    \/ PpWaitAndReturn

(***************************************************************************)
(* Specifications, one per component.                                      *)
(***************************************************************************)

Init == GenInit /\ ExtIdle /\ WrIdle /\ SmIdle /\ PtIdle /\ FbIdle /\
    FxIdle /\ WfIdle /\ A3Idle /\ InsIdle /\ DpIdle /\ OrIdle /\ A4Idle /\
    LpIdle /\ NcIdle /\ PpIdle

Spec == Init /\ [][GenNext]_vars

InitExt == ExtInit /\ GenIdle /\ WrIdle /\ SmIdle /\ PtIdle /\ FbIdle /\
    FxIdle /\ WfIdle /\ A3Idle /\ InsIdle /\ DpIdle /\ OrIdle /\ A4Idle /\
    LpIdle /\ NcIdle /\ PpIdle

SpecExt == InitExt /\ [][ExtNext]_vars

InitWr == WrInit /\ GenIdle /\ ExtIdle /\ SmIdle /\ PtIdle /\ FbIdle /\
    FxIdle /\ WfIdle /\ A3Idle /\ InsIdle /\ DpIdle /\ OrIdle /\ A4Idle /\
    LpIdle /\ NcIdle /\ PpIdle

SpecWr == InitWr /\ [][WrNext]_vars

InitSm == SmInit /\ GenIdle /\ ExtIdle /\ WrIdle /\ PtIdle /\ FbIdle /\
    FxIdle /\ WfIdle /\ A3Idle /\ InsIdle /\ DpIdle /\ OrIdle /\ A4Idle /\
    LpIdle /\ NcIdle /\ PpIdle

SpecSm == InitSm /\ [][SmNext]_vars

InitPt == PtInit /\ GenIdle /\ ExtIdle /\ WrIdle /\ SmIdle /\ FbIdle /\
    FxIdle /\ WfIdle /\ A3Idle /\ InsIdle /\ DpIdle /\ OrIdle /\ A4Idle /\
    LpIdle /\ NcIdle /\ PpIdle

SpecPt == InitPt /\ [][PtNext]_vars

InitFb == FbInit /\ GenIdle /\ ExtIdle /\ WrIdle /\ SmIdle /\ PtIdle /\
    FxIdle /\ WfIdle /\ A3Idle /\ InsIdle /\ DpIdle /\ OrIdle /\ A4Idle /\
    LpIdle /\ NcIdle /\ PpIdle

SpecFb == InitFb /\ [][FbNext]_vars

InitFx == FxInit /\ GenIdle /\ ExtIdle /\ WrIdle /\ SmIdle /\ PtIdle /\
    FbIdle /\ WfIdle /\ A3Idle /\ InsIdle /\ DpIdle /\ OrIdle /\ A4Idle /\
    LpIdle /\ NcIdle /\ PpIdle

SpecFx == InitFx /\ [][FxNext]_vars

InitWf == WfInit /\ GenIdle /\ ExtIdle /\ WrIdle /\ SmIdle /\ PtIdle /\
    FbIdle /\ FxIdle /\ A3Idle /\ InsIdle /\ DpIdle /\ OrIdle /\ A4Idle /\
    LpIdle /\ NcIdle /\ PpIdle

SpecWf == InitWf /\ [][WfNext]_vars

InitA3 == A3Init /\ GenIdle /\ ExtIdle /\ WrIdle /\ SmIdle /\ PtIdle /\
    FbIdle /\ FxIdle /\ WfIdle /\ InsIdle /\ DpIdle /\ OrIdle /\ A4Idle /\
    LpIdle /\ NcIdle /\ PpIdle

SpecA3 == InitA3 /\ [][A3Next]_vars

InitIns == InsInit /\ GenIdle /\ ExtIdle /\ WrIdle /\ SmIdle /\ PtIdle /\
    FbIdle /\ FxIdle /\ WfIdle /\ A3Idle /\ DpIdle /\ OrIdle /\ A4Idle /\
    LpIdle /\ NcIdle /\ PpIdle

SpecIns == InitIns /\ [][InsNext]_vars

InitDp == DpInit /\ GenIdle /\ ExtIdle /\ WrIdle /\ SmIdle /\ PtIdle /\
    FbIdle /\ FxIdle /\ WfIdle /\ A3Idle /\ InsIdle /\ OrIdle /\ A4Idle /\
    LpIdle /\ NcIdle /\ PpIdle

SpecDp == InitDp /\ [][DpNext]_vars

InitOr == OrInit /\ GenIdle /\ ExtIdle /\ WrIdle /\ SmIdle /\ PtIdle /\
    FbIdle /\ FxIdle /\ WfIdle /\ A3Idle /\ InsIdle /\ DpIdle /\ A4Idle /\
    LpIdle /\ NcIdle /\ PpIdle

SpecOr == InitOr /\ [][OrNext]_vars

InitA4 == A4Init /\ GenIdle /\ ExtIdle /\ WrIdle /\ SmIdle /\ PtIdle /\
    FbIdle /\ FxIdle /\ WfIdle /\ A3Idle /\ InsIdle /\ DpIdle /\ OrIdle /\
    LpIdle /\ NcIdle /\ PpIdle

SpecA4 == InitA4 /\ [][A4Next]_vars

InitLp == LpInit /\ GenIdle /\ ExtIdle /\ WrIdle /\ SmIdle /\ PtIdle /\
    FbIdle /\ FxIdle /\ WfIdle /\ A3Idle /\ InsIdle /\ DpIdle /\ OrIdle /\
    A4Idle /\ NcIdle /\ PpIdle

SpecLp == InitLp /\ [][LpNext]_vars

InitNc == NcInit /\ GenIdle /\ ExtIdle /\ WrIdle /\ SmIdle /\ PtIdle /\
    FbIdle /\ FxIdle /\ WfIdle /\ A3Idle /\ InsIdle /\ DpIdle /\ OrIdle /\
    A4Idle /\ LpIdle /\ PpIdle

SpecNc == InitNc /\ [][NcNext]_vars

InitPp == PpInit /\ GenIdle /\ ExtIdle /\ WrIdle /\ SmIdle /\ PtIdle /\
    FbIdle /\ FxIdle /\ WfIdle /\ A3Idle /\ InsIdle /\ DpIdle /\ OrIdle /\
    A4Idle /\ LpIdle /\ NcIdle

SpecPp == InitPp /\ [][PpNext]_vars

(***************************************************************************)
(* Claims about the multi-API code generator.                              *)
(***************************************************************************)

Failed(i) == i \in 1..Len(gen_results) /\ ~gen_results[i][2]
Succeeded(i) == i \in 1..Len(gen_results) /\ gen_results[i][2]

\* C1: whenever backend i reported failure and backend i+1 reported success,
\* the generator returns exactly backend i+1's content with backend i+1's
\* tag, and it never returns the tag or the content of a backend that failed.
C1_FirstSuccessReturned ==
    /\ \A i \in 1..Len(gen_results) :
          Failed(i) /\ Succeeded(i + 1) =>
              gen_ret = [content |-> gen_results[i + 1][1],
                         tag |-> gen_calls[i + 1]]
    /\ \A j \in 1..Len(gen_results) :
          Failed(j) =>
              /\ gen_ret.tag # gen_calls[j]
              /\ gen_ret.content # gen_results[j][1]

\* V0 and Claude failed, OpenAI succeeded and its answer was returned.
C1_Witness ==
    /\ gen_pc = "done"
    /\ Failed(1) /\ Failed(2) /\ Succeeded(3)
    /\ gen_ret = [content |-> <<"code B">>, tag |-> "openai"]

\* C2: when V0, Claude and OpenAI all failed, the generator returns a
\* non-empty content with the tag "fallback".
C2_FallbackNeverEmpty ==
    (gen_pc = "done" /\ Failed(1) /\ Failed(2) /\ Failed(3)) =>
        /\ gen_ret.tag = "fallback"
        /\ gen_ret.content # <<>>

\* The three remote backends failed in three different ways: no credential,
\* an exception, a 200 answer without choices.
C2_Witness ==
    /\ gen_pc = "done"
    /\ gen_calls = <<"v0", "claude", "openai", "fallback">>
    /\ gen_results[1][1] = <<"V0_API_KEY", "not found">>
    /\ gen_results[2][1] = <<"Claude", "API exception">>
    /\ gen_results[3][1] = <<"OpenAI", "API error", "200">>
    /\ gen_ret.tag = "fallback"

\* C13: whenever the generator returns a tag naming a source (v0, claude,
\* openai or fallback) the returned content is non-empty, and an empty
\* content is returned only with the tag "failed".
C13_SuccessTagNonEmpty ==
    gen_pc = "done" =>
        /\ gen_ret.tag \in {"v0", "claude", "openai", "fallback"} =>
               gen_ret.content # <<>>
        /\ gen_ret.content = <<>> => gen_ret.tag = "failed"

\* The credential, the name in the error strings and the strategy that
\* follows, for each remote backend.
KeyOf(tag) ==
    CASE tag = "v0" -> "V0_API_KEY"
      [] tag = "claude" -> "ANTHROPIC_API_KEY"
      [] tag = "openai" -> "OPENAI_API_KEY"

NameOf(tag) ==
    CASE tag = "v0" -> "V0"
      [] tag = "claude" -> "Claude"
      [] tag = "openai" -> "OpenAI"

FollowerOf(tag) ==
    CASE tag = "v0" -> "claude"
      [] tag = "claude" -> "openai"
      [] tag = "openai" -> "fallback"

\* After call i the dispatcher went on with the next strategy.
Proceeded(i) ==
    IF i < Len(gen_calls) THEN gen_calls[i + 1] = FollowerOf(gen_calls[i])
    ELSE gen_pc = FollowerOf(gen_calls[i]) /\ gen_ret = NoReturn

\* C14: for each of V0, Claude and OpenAI, a call without the credential, a
\* call that met an exception, a response with another status than 200 and
\* a 200 response without a list of choices each come back as a pair of an
\* error description and False, and the dispatcher goes on with the next
\* backend.
C14_BackendFailuresReturned ==
    \A i \in 1..Len(gen_calls) :
        gen_calls[i] \in {"v0", "claude", "openai"} =>
            LET tag == gen_calls[i]
                resp == gen_resps[i]
                res == gen_results[i]
            IN  /\ KeyOf(tag) \notin gen_env =>
                       res = <<<<KeyOf(tag), "not found">>, FALSE>>
                /\ (KeyOf(tag) \in gen_env /\ resp.kind = "exception") =>
                       res = <<<<NameOf(tag), "API exception">>, FALSE>>
                /\ (/\ KeyOf(tag) \in gen_env
                    /\ resp.kind = "http"
                    /\ (resp.status # HTTP_OK \/ resp.choices = <<>>)) =>
                       res = <<ApiError(NameOf(tag), resp.status), FALSE>>
                /\ ~res[2] => Proceeded(i)

\* V0 had no credential, Claude met an exception, OpenAI answered 200
\* without choices, and the dispatcher stands at the fallback.
C14_Witness ==
    /\ gen_pc = "fallback"
    /\ gen_calls = <<"v0", "claude", "openai">>
    /\ "V0_API_KEY" \notin gen_env
    /\ gen_resps[2].kind = "exception"
    /\ gen_resps[3] = [kind |-> "http", status |-> HTTP_OK, choices |-> <<>>]
    /\ gen_results[3] = <<<<"OpenAI", "API error", "200">>, FALSE>>

(***************************************************************************)
(* Claims about the spec extractor.                                        *)
(***************************************************************************)

\* The payload holds "<content>", then X, then "</content>".
HasContentPair(raw) ==
    /\ Find(raw, OpenTag) > 0
    /\ \E j \in (Find(raw, OpenTag) + 1)..Len(raw) : raw[j] = CloseTag

\* X: the text between the first "<content>" and the first "</content>"
\* after it.
ContentOf(raw) ==
    LET i == Find(raw, OpenTag)
        j == CHOOSE k \in (i + 1)..Len(raw) :
                 /\ raw[k] = CloseTag
                 /\ \A m \in (i + 1)..(k - 1) : raw[m] # CloseTag
    IN  SubSeq(raw, i + 1, j - 1)

\* C3: for every fetched payload that contains <content>X</content>, the
\* extractor returns exactly X with the surrounding whitespace trimmed,
\* whatever surrounds the delimiter pair.
C3_ContentExtracted ==
    (ext_pc = "done" /\ ext_fetch.success /\ HasContentPair(ext_fetch.raw)) =>
        /\ ext_out.kind \in {"text", "SUCCESS", "FAILED"}
        /\ ext_out.kind \in {"text", "SUCCESS"} =>
               ext_out.text = Strip(ContentOf(ext_fetch.raw))

(***************************************************************************)
(* Claims about the file writer.                                           *)
(***************************************************************************)

ProjectFiles(fs) == {l \in DOMAIN fs : IsUnder(l, ProjectDir)}

\* No pattern matches anything in the text.
NoPatternMatches(text) ==
    \A i \in 1..Len(text) :
        ~(IsPattern1(text[i]) \/ IsPattern2(text[i]) \/ IsPattern3(text[i])
          \/ IsPattern4(text[i]))

\* C4: for a text in which no file-block pattern matches, the writer leaves
\* a non-empty project directory (the skeleton), never an empty one.
C4_SkeletonFallback ==
    (wr_pc # "start" /\ wr_project = "given" /\ NoPatternMatches(wr_text)) =>
        ProjectFiles(wr_fs) # {}

\* Every match of the pass, in the order the writer meets them.
AllMatches(text) ==
    FindAll1(text) \o FindAll2(text)
    \o FindAll3(text) \o FindAll4(text)

FirstMatchOf(path, matches) ==
    matches[CHOOSE i \in 1..Len(matches) :
                /\ matches[i][1] = path
                /\ \A j \in 1..(i - 1) : matches[j][1] # path]

MatchedPaths(text) ==
    {AllMatches(text)[i][1] : i \in 1..Len(AllMatches(text))}

\* C8: within one pass, when a path is produced by more than one match, the
\* content of the first match is on disk and every later match for that path
\* is skipped (one write per path).
C8_FirstWriteWins ==
    (wr_pc # "start" /\ wr_project = "given") =>
        /\ \A p \in MatchedPaths(wr_text) :
              /\ Location(p) \in DOMAIN wr_fs
              /\ wr_fs[Location(p)] =
                     Strip(FirstMatchOf(p, AllMatches(wr_text))[2])
        /\ wr_saved = Cardinality(MatchedPaths(wr_text))

\* C9: every file the writer writes lies inside the project root.
C9_WritesInsideProject ==
    \A i \in 1..Len(wr_log) : IsUnder(wr_log[i], ProjectDir)

\* C10: running the writer twice on the same text and project name leaves
\* the same file paths with the same contents as running it once.
C10_WriterIdempotent ==
    wr_pc = "twice" => wr_fs = wr_fs1

\* Two runs that wrote, inside and outside the project directory, a path
\* matched twice among them.
C10_Witness ==
    /\ wr_pc = "twice"
    /\ wr_saved >= 2
    /\ Location(UpEvil) \in DOMAIN wr_fs
    /\ Location(PackageJson) \in DOMAIN wr_fs
    /\ wr_fs = wr_fs1

(***************************************************************************)
(* Claims about the smoke test.                                            *)
(***************************************************************************)

\* C5: the smoke test reports failure whenever the dev server exited before
\* the end of the grace period, and success only when the process was still
\* running at the end of it.
C5_SmokeTestVerdict ==
    sm_pc = "done" =>
        /\ sm_child = "exited" => sm_ret \notin {"SUCCESS", "True"}
        /\ sm_ret \in {"SUCCESS", "True"} => sm_child = "terminated"

(***************************************************************************)
(* Claims about the automated error fixer.                                 *)
(***************************************************************************)

\* C6: the dependency rule is idempotent: run a second time on the result of
\* its first run it changes nothing in package.json and records no fix.
C6_DependencyFixIdempotent ==
    (pt_last = "package_json" /\ pt_prev = "package_json") =>
        /\ pt_manifest = pt_before
        /\ pt_added = <<>>

\* The first run added the missing packages, the second run has returned.
C6_Witness ==
    /\ pt_last = "package_json" /\ pt_prev = "package_json"
    /\ pt_fixes = <<"Added missing dependencies and devDependencies to package.json">>
    /\ pt_manifest.kind = "object"
    /\ pt_manifest.dependencies.map["next"] = "custom"
    /\ pt_manifest.dependencies.map["react"] = "^18.0.0"
    /\ pt_manifest.devDependencies.map["typescript"] = "^5.3.3"

\* C7: when the dev script holds the --turbopack flag, the turbopack rule
\* leaves a dev script without the flag and appends exactly one fix record
\* naming the flag; run again, the rule changes nothing and records nothing.
C7_TurbopackFlagRemoved ==
    /\ (/\ pt_last = "turbopack"
        /\ pt_before.kind = "object"
        /\ pt_before.dev.kind = "script"
        /\ HasFlag(pt_before.dev.text)) =>
           /\ ~HasFlag(pt_manifest.dev.text)
           /\ pt_added = <<"Removed incompatible --turbopack flag">>
    /\ (pt_last = "turbopack" /\ pt_prev = "turbopack") =>
           /\ pt_manifest = pt_before
           /\ pt_added = <<>>

(***************************************************************************)
(* Claims about the feedback loop.                                         *)
(***************************************************************************)

\* The index of the heading of the section written with timestamp ts.
HeadingAt(doc, ts) ==
    CHOOSE i \in 1..Len(doc) : doc[i].kind = "fbhead" /\ doc[i].ts = ts

\* C11: feedback is append-only: every section written so far stands in the
\* document unchanged, each section comes after all sections written before
\* it, and the section extract_feedback returns is the one written last.
C11_FeedbackAppendOnly ==
    /\ \A k \in 1..Len(fb_written) :
          \E i \in 1..Len(fb_doc) :
              SubSeq(fb_doc, i, i + 3)
                  = FeedbackLines(fb_written[k].ts, fb_written[k].summary)
    /\ \A k \in 1..Len(fb_written) : \A m \in (k + 1)..Len(fb_written) :
          HeadingAt(fb_doc, fb_written[k].ts)
              < HeadingAt(fb_doc, fb_written[m].ts)
    /\ (fb_out.kind = "SUCCESS" /\ fb_out = LatestFeedback(fb_doc)) =>
          fb_out.section[1].line.ts = fb_written[Len(fb_written)].ts

(***************************************************************************)
(* Claims about a whole run of the error fixer.                            *)
(***************************************************************************)

Ran(name) == \E i \in 1..Len(fx_ran) : fx_ran[i] = name

\* C15: when package.json is malformed JSON, the run still calls the
\* tailwind, postcss, image hostname and client-component rules and returns
\* its fix list.
C15_MalformedManifestConfined ==
    (fx_start.manifest.kind = "malformed" /\ fx_pc \in {"returned", "raised"}) =>
        /\ Ran("tailwind") /\ Ran("postcss")
        /\ Ran("image_hostname") /\ Ran("client_component")
        /\ fx_pc = "returned"
        /\ fx_ret = fx_fixes

\* The file each rule reads and rewrites.
ManifestRules == {"package_json", "turbopack"}
ConfigRules == {"tailwind", "postcss", "image_hostname"}
SourceRules == {"client_component"}

\* C16 as stated: every rule on package.json runs before every rule on a
\* framework config file, and every rule on a framework config file runs
\* before the per-file source patch.
C16_ManifestThenConfigThenSource ==
    \A i \in 1..Len(fx_ran) : \A j \in (i + 1)..Len(fx_ran) :
        /\ ~(fx_ran[i] \in ConfigRules /\ fx_ran[j] \in ManifestRules)
        /\ ~(fx_ran[i] \in SourceRules
             /\ fx_ran[j] \in ManifestRules \cup ConfigRules)

\* C16, amended: the rules run in the one order dependency fix, tailwind
\* config, postcss config, image hostname, turbopack flag, client-component
\* patch, so the dependency fix precedes every config-file fix and the
\* source patch comes last, and a run that returns has called all six.
C16_FixedRuleOrder ==
    /\ fx_ran = SubSeq(<<"package_json", "tailwind", "postcss",
                         "image_hostname", "turbopack", "client_component">>,
                       1, Len(fx_ran))
    /\ fx_pc = "returned" => Len(fx_ran) = 6

\* A run that added the packages, created the tailwind config, removed the
\* flag after that, then patched the source file.
C16_Witness ==
    /\ fx_pc = "returned"
    /\ fx_ret = <<"Added missing dependencies and devDependencies to package.json",
                  "Created missing tailwind.config.js",
                  "Removed incompatible --turbopack flag",
                  "Fixed Client Component boundaries in app/page.tsx">>

(***************************************************************************)
(* Claims about the final workflow.                                        *)
(***************************************************************************)

IsPrefix(s, t) == Len(s) <= Len(t) /\ s = SubSeq(t, 1, Len(s))

\* The stage an error message names, "none" when it names no stage.
StageNamedBy(message) ==
    CASE message = "Notion extraction failed" -> "notion_extraction"
      [] message = "V0 code generation failed" -> "v0_generation"
      [] message = "Failed to save project files" -> "file_saving"
      [] message = "npm install failed" -> "npm_install"
      [] message = "Dev server test failed" -> "dev_server_test"
      [] OTHER -> "none"

\* C12: the stages run in the order notion_extraction, v0_generation,
\* file_saving, error_fixing, npm_install, dev_server_test: steps is always
\* a prefix of that list, no stage is entered after a stage failed, success
\* is true exactly when all six stages are recorded, and a failed run
\* records an error that names the stage that failed.
C12_StagesInOrder ==
    /\ IsPrefix(wf_results.steps, Stages)
    /\ IsPrefix(wf_ran, Stages)
    /\ wf_failed # "none" =>
          /\ wf_pc = "returned"
          /\ wf_ran[Len(wf_ran)] = wf_failed
          /\ wf_results.steps = SubSeq(wf_ran, 1, Len(wf_ran) - 1)
    /\ wf_pc = "returned" =>
          (wf_results.success <=> wf_results.steps = Stages)
    /\ (wf_pc = "returned" /\ ~wf_results.success) =>
          \E i \in 1..Len(wf_results.errors) :
              StageNamedBy(wf_results.errors[i]) = wf_failed

(***************************************************************************)
(* Claims about the agent 3 workflow.                                      *)
(***************************************************************************)

\* The workflow returned False right after its k-th tool call.
StoppedAt(k) ==
    /\ a3_pc = "returned"
    /\ a3_ret = "False"
    /\ Len(a3_calls) = k

\* C17: a timeout is treated as a failure of the step: when the spec
\* extraction, or the browser test, timed out, the workflow stops at that
\* step and returns False, as it does when the browser test call failed.
C17_TimeoutStopsWorkflow ==
    /\ (Len(a3_calls) >= 1 /\ a3_calls[1] = "timeout") => StoppedAt(1)
    /\ (Len(a3_calls) >= 2 /\ a3_calls[2] = "timeout") => StoppedAt(2)
    /\ (Len(a3_calls) >= 2 /\ a3_calls[2] = "failed") => StoppedAt(2)

(***************************************************************************)
(* Claims about the install step.                                          *)
(***************************************************************************)

InstallFailed == ins_ret.kind \in {"FAILED", "ERROR", "False"}

\* C18: the install step never waits longer than the timeout: when npm has
\* not exited by then the step returns a failure; a non-zero exit returns a
\* failure that carries the diagnostic output cut to 200 characters; and
\* the dev-server check is not started after an install failure.
C18_InstallBounded ==
    /\ ins_pc = "waiting" => ins_clock <= InstallTimeout
    /\ (ins_pc = "done" /\ ins_npm = "killed") => InstallFailed
    /\ (ins_pc = "done" /\ ins_npm = "exited" /\ ins_exit.code # 0) =>
          /\ InstallFailed
          /\ ins_ret.diag = SliceLen(ins_exit.stderr, DiagLimit)
    /\ (ins_pc = "done" /\ InstallFailed) => ins_dev = "not started"

(***************************************************************************)
(* Claims about the deployment.                                            *)
(***************************************************************************)

\* The 'CLI not installed' result, returned before a deployment was invoked
\* and before vercel.json was written.
ReportedNotInstalled ==
    /\ dp_ret = CliNotInstalled
    /\ ~dp_invoked
    /\ ~dp_config

\* C19 as stated: whenever the deployment CLI is absent, deploy_to_vercel
\* returns the 'CLI not installed' failure without invoking a deployment or
\* writing vercel.json.
C19_AbsentCliReported ==
    (dp_pc = "done" /\ dp_cli = "absent") => ReportedNotInstalled

\* C19, amended: when the project directory exists and the deployment CLI
\* is absent, deploy_to_vercel returns the 'CLI not installed' failure
\* without invoking a deployment or writing vercel.json; and no result of
\* an invoked deployment, of a failed write or of a missing directory
\* equals that failure.
C19_AbsentCliReportedInProject ==
    /\ (dp_pc = "done" /\ dp_exists /\ dp_cli = "absent") =>
          ReportedNotInstalled
    /\ (dp_pc = "done" /\ dp_ret = CliNotInstalled) =>
          /\ dp_cli # "present"
          /\ ~dp_invoked

\* The directory exists, the CLI does not, and the call has returned.
C19_Witness ==
    /\ dp_pc = "done"
    /\ dp_exists
    /\ dp_cli = "absent"
    /\ dp_ret = CliNotInstalled

(***************************************************************************)
(* Claims about the tagged result of extract_notion_specs.                 *)
(***************************************************************************)

\* extract_notion_specs has returned (test_notion_extraction returns the
\* untagged text or None).
ExtractReturned ==
    /\ ext_pc = "done"
    /\ ext_out.kind \notin {"text", "none"}

\* C20: extract_notion_specs always returns a tagged string: a failed fetch
\* gives a FAILED tag, an extracted text of at most 100 characters (the
\* empty text included) gives a FAILED tag, an exception raised on the way
\* gives an ERROR tag, and a SUCCESS tag is given only to a text of more
\* than 100 characters, which the result then carries.
C20_ExtractTagged ==
    ExtractReturned =>
        LET r == CleanSpecs(ext_fetch.raw) IN
        /\ ext_out.kind \in {"SUCCESS", "FAILED", "ERROR"}
        /\ ~ext_fetch.success => ext_out.kind = "FAILED"
        /\ (ext_fetch.success /\ r.kind = "raised") => ext_out.kind = "ERROR"
        /\ (ext_fetch.success /\ r.kind = "text" /\ StrLen(r.text) <= 100) =>
              ext_out.kind = "FAILED"
        /\ (ext_fetch.success /\ r.kind = "text" /\ StrLen(r.text) > 100) =>
              ext_out.kind = "SUCCESS"
        /\ ext_out.kind = "SUCCESS" =>
              /\ ext_fetch.success
              /\ StrLen(ext_out.text) > 100
              /\ ext_out.text = r.text

\* A text of 101 characters was extracted and returned behind SUCCESS.
C20_Witness ==
    /\ ExtractReturned
    /\ ext_out.kind = "SUCCESS"
    /\ StrLen(ext_out.text) = 101

(***************************************************************************)
(* Claims about the specs text of the agent 3 workflow.                    *)
(***************************************************************************)

\* browser_test_analysis was called with a3_specs.
BrowserTestCalled ==
    /\ Len(a3_calls) >= 2
    /\ a3_calls[1] = "ok"

\* C21: the specs text handed to browser_test_analysis equals the whole
\* text step 1 isolated from the page, whatever its length.
C21_SpecsVerbatim ==
    BrowserTestCalled => a3_specs = a3_doc

(***************************************************************************)
(* Claims about the project directory of a generation run.                 *)
(***************************************************************************)

\* The locations of wr_log.
Written == {wr_log[i] : i \in 1..Len(wr_log)}

\* C22: when the file writer has returned, every file in the project
\* directory was written by this run, and nothing an earlier run left there
\* (a file or a subdirectory) is still present.
C22_RunOwnsProjectDirectory ==
    (wr_pc \in {"once", "twice"} /\ wr_ret \in {"True", "False"}) =>
        /\ ProjectFiles(wr_fs) \subseteq Written
        /\ \A l \in DOMAIN StaleFiles : l \notin DOMAIN wr_fs

\* A second run has returned in a project directory that held the files of
\* the first run.
C22_Witness ==
    /\ wr_pc = "twice"
    /\ wr_ret = "True"
    /\ ProjectFiles(wr_fs1) # {}
    /\ ProjectFiles(wr_fs) \subseteq Written

(***************************************************************************)
(* Claims about the order of the strategies.                               *)
(***************************************************************************)

StrategyOrder == <<"v0", "claude", "openai", "fallback">>

\* C23: the dispatcher invokes V0, Claude and OpenAI in this order, each at
\* most once; a backend is invoked only when every earlier one was invoked
\* and failed, none is invoked after a success, and the call returns only
\* after a success or after the last strategy.
C23_BackendsInOrder ==
    /\ Len(gen_calls) <= Len(StrategyOrder)
    /\ \A i \in 1..Len(gen_calls) : gen_calls[i] = StrategyOrder[i]
    /\ \A i \in 1..Len(gen_calls) : \A j \in 1..(i - 1) : Failed(j)
    /\ gen_pc = "done" =>
          \/ Succeeded(Len(gen_calls))
          \/ gen_calls = StrategyOrder
    /\ (gen_pc # "done" /\ gen_pc # "off") =>
          /\ gen_pc = StrategyOrder[Len(gen_calls) + 1]
          /\ \A j \in 1..Len(gen_calls) : Failed(j)

\* V0 failed, Claude succeeded, and OpenAI was never invoked.
C23_Witness ==
    /\ gen_pc = "done"
    /\ gen_calls = <<"v0", "claude">>
    /\ Failed(1)
    /\ Succeeded(2)

(***************************************************************************)
(* Claims about the three-agent orchestrator.                              *)
(***************************************************************************)

Started(n) == \E i \in 1..Len(or_started) : or_started[i] = n

ExitedWithZero(child) == child.kind = "exited" /\ child.code = 0

ToolFailed(i) ==
    /\ Len(a3_calls) >= i
    /\ a3_calls[i] \in {"failed", "timeout", "exception"}

\* C25: whenever extract_specs returns one of its FAILED or ERROR strings,
\* run_agent3_workflow returns False at step 1 without calling the browser
\* test or the feedback write; and whenever the browser test returns one of
\* its failure strings, the feedback write is not performed.
C25_HaltsOnFirstFailedStage ==
    /\ ToolFailed(1) =>
          /\ StoppedAt(1)
          /\ a3_analysis = NoText
          /\ a3_feedback = NoText
    /\ ToolFailed(2) =>
          /\ StoppedAt(2)
          /\ a3_feedback = NoText

(***************************************************************************)
(* Claims about the agent 4 workflow.                                      *)
(***************************************************************************)

\* The result begins with the tag.
Tagged(result, tag) == result # <<>> /\ tag \in Tags(result[1])

\* Step k has run and returned a FAILED or ERROR string.
A4StepFailed(k) ==
    /\ Len(a4_results) >= k
    /\ Tagged(a4_results[k], "FAILED") \/ Tagged(a4_results[k], "ERROR")

\* C26: run_agent4_workflow returns True only when the feedback extraction,
\* the analysis, the code modification and the validation each returned a
\* SUCCESS string; and when a step returns a FAILED or ERROR string, the
\* workflow returns False having run no later step and names that step as
\* the failed one.
C26_StopsAtFailedStep ==
    /\ a4_ret = "True" =>
          /\ Len(a4_results) = 4
          /\ \A k \in 1..4 : Tagged(a4_results[k], "SUCCESS")
    /\ \A k \in 1..4 :
          A4StepFailed(k) =>
              /\ Len(a4_results) = k
              /\ a4_pc = "returned"
              /\ a4_ret = "False"
              /\ a4_reported = k

(***************************************************************************)
(* Claims about the line-based parser.                                     *)
(***************************************************************************)

\* The line opens a block: a fence line carrying file="path".
OpensBlock(line) == StartsWithFence(line) /\ FilePath(line) # ""

\* The lines after position i up to the next line starting with a fence, or
\* to the end of the text.
RECURSIVE BlockBody(_, _)
BlockBody(text, i) ==
    IF i + 1 > Len(text) \/ StartsWithFence(text[i + 1]) THEN <<>>
    ELSE <<text[i + 1]>> \o BlockBody(text, i + 1)

\* One write per opening line, in the order of the text.
RECURSIVE BlocksFrom(_, _)
BlocksFrom(text, i) ==
    IF i > Len(text) THEN <<>>
    ELSE IF OpensBlock(text[i])
         THEN <<<<FilePath(text[i]), StripLines(BlockBody(text, i))>>>>
              \o BlocksFrom(text, i + 1)
    ELSE BlocksFrom(text, i + 1)

NotThinking(line) == ~IsThinking(line)

\* C27: the parser writes each block opened by a fence line carrying
\* file="path" exactly once, with the lines between that line and the next
\* line starting with a fence (lines of thinking tags left out, the content
\* trimmed as save_file trims it); no other line is written, a last block
\* without closing fence is written too, and the count returned is the
\* number of writes.
C27_EachBlockWrittenOnce ==
    lp_pc = "done" =>
        /\ lp_writes = BlocksFrom(SelectSeq(lp_text, NotThinking), 1)
        /\ lp_count = Len(lp_writes)

(***************************************************************************)
(* Claims about the Notion MCP client.                                     *)
(***************************************************************************)

\* C29: a session that is not None is an initialised one, in every state
\* and so after a connect() whose session initialisation raised; and no
\* request is ever sent on a session that was not initialised.
C29_SessionInitialised ==
    /\ nc_session # "None" => nc_session = "initialized"
    /\ ~nc_uninit

(***************************************************************************)
(* Claims about the orchestrator's wait on an agent process.               *)
(***************************************************************************)

\* The child is scheduled by the operating system and the parent runs its
\* loop: a step that stays possible is taken.
FairSpecPp ==
    InitPp /\ [][PpNext]_vars /\ WF_vars(PpNext)

\* C28: whatever the child writes to stderr, the child finishes its work
\* and run_agentN returns.
C28_ParentReturns == <>(pp_parent = "returned")

(***************************************************************************)
(* Claims about temporary files.                                           *)
(***************************************************************************)

ModifyCodeReturned == Len(a4_results) >= 3

\* C30: when modify_code has returned, on whatever path, the file
\* '<project>_iteration_specs.txt' it wrote does not exist any more.
C30_TempFileRemoved == ModifyCodeReturned => ~a4_tmp

====
